---- MODULE Spec2Model ----
(***************************************************************************)
(* The routing ledger of openclaw-memory-suite: the JSON document          *)
(* ~/.openclaw/memory/meta.json, updated by recordRouting /                *)
(* recordRoutingFeedback (extensions/_shared/meta-routing.js) and by the   *)
(* agent_end handler of memory-meta (extensions/memory-meta/index.js).     *)
(*                                                                         *)
(* Numbers: character counts and counters are integers.  A JSON field that *)
(* is absent (JavaScript undefined) is the value Undef.  Time is counted   *)
(* in half days since a Monday 00:00 UTC.  useful_rate is kept in          *)
(* hundredths (0.67 is 67).  The timestamps the code only writes           *)
(* (last_activated_at, last_feedback_at, last_updated_at, lastSessionAt)   *)
(* and the message-derived counters toolCalls/toolErrors/memoryCommands    *)
(* are left out: no update of the ledger reads them.                       *)
(*                                                                         *)
(* After the ledger come memory-rerank's selectTopCluster (unnamed/        *)
(* part_002), with scores in hundredths (0.82 is 82), and the              *)
(* before_agent_start and agent_end handlers of the memory layers.  Of a   *)
(* handler the model keeps what it did: the external calls it issued and   *)
(* how each was answered, the blocks it returned, its recordRouting calls  *)
(* and the fields it stored; texts are kept as whether they carry an       *)
(* unmasked secret-shaped token.  The recall of memory-blackboard and the  *)
(* agent_end handlers of memory-goal and memory-graph are left out: they   *)
(* repeat the gate and the capture of the plugins modelled.  Then come the *)
(* functions called on their own (computeDecayScore, parseGoals,           *)
(* extractEntitiesFromText) and the two deduplicated stores: the items of  *)
(* memory-blackboard's board and the entries of memory-entity's index.     *)
(* Last come the rescoring, filter and order of the recalls (memory-       *)
(* epiproc's recallEntries, memory-goal's goals), the statistics of        *)
(* memory-toolskill, the entries of memory-sentiment, register with its    *)
(* configuration, and the initialization of memory-epiproc's VectorTable.  *)
(***************************************************************************)
EXTENDS Integers, Sequences, FiniteSets, TLC

\* ---------------------------------------------------------------- bounds
MaxOps == 4         \* handler invocations in one behaviour
MaxTime == 18       \* the clock stops here (half days)
MaxInflight == 1    \* agent_end handlers suspended at their await at once
MaxCandidates == 3  \* scored candidates handed to selectTopCluster
MaxHandlers == 2    \* invocations of the memory layers' handlers in one behaviour
MaxAgeDays == 4     \* the oldest record handed to computeDecayScore (days)
MaxLines == 3       \* lines of a text handed to parseGoals / extractEntitiesFromText
MaxCaptures == 2    \* agent_end captures into the board and the entity index
MaxRegistrations == 3   \* register calls and events delivered after them
MaxCallers == 2     \* store / search calls running on one VectorTable
MaxHits == 3        \* rows a vector search returns to a recall

\* ------------------------------------------------------------ JS values
Undef == -1         \* undefined: an absent field
NaN == -3           \* NaN: no comparison with it is true
NotFinite == -2     \* an argument for which Number.isFinite(Number(x)) is false

Layers == {"episodic", "meta"}

\* The layer names the plugins pass to recordRouting.
LedgerLayers ==
    Layers \cup {"procedural", "entity", "goal", "timeline", "graph", "tool_skill",
                 "sentiment"}
LayerArgs == Layers \cup {""}
CharArgs == {3, 500, NotFinite}
Baselines == {Undef, 400}
LtmResults == {Undef, 2}
ClockSteps == {9}

Or0(x) == IF x = Undef THEN 0 ELSE x

Max(a, b) == IF a >= b THEN a ELSE b

\* Math.floor in the place of Math.round.
MathRound_Floor(n, d) == n \div d

\* Math.round(n / d) for d > 0: the nearest integer, a tie going up.
MathRound(n, d) == (2 * n + d) \div (2 * d)

\* Number((n / d).toFixed(2)) in hundredths.  toFixed picks the nearest
\* two-decimal value and, on an exact tie, the larger; for d < 40 the only
\* ties are multiples of 1/8, which a double represents exactly.
ToFixed2_Truncate(n, d) == (100 * n) \div d

ToFixed2(n, d) == (200 * n + d) \div (2 * d)

\* ------------------------------------------------------------ documents
NoEntry == [present |-> FALSE, activations |-> Undef, chars_injected |-> Undef,
            useful_up |-> Undef, useful_down |-> Undef, useful_rate |-> Undef]

NewEntry == [present |-> TRUE, activations |-> 0, chars_injected |-> 0,
             useful_up |-> 0, useful_down |-> 0, useful_rate |-> Undef]

NoStats == [present |-> FALSE,
            layers |-> [l \in LedgerLayers |-> NoEntry],
            total_activations |-> Undef,
            total_chars_injected |-> Undef,
            current_session_chars |-> Undef,
            current_session_activations |-> Undef,
            sessions |-> Undef,
            total_session_chars |-> Undef,
            total_session_activations |-> Undef,
            after_routing_avg |-> Undef,
            last_session_chars |-> Undef,
            last_session_activations |-> Undef]

NoToken == [present |-> FALSE,
            before_routing_avg |-> Undef,
            after_routing_avg |-> Undef,
            saved_last_session |-> Undef,
            saved_total |-> Undef,
            week_start |-> Undef,
            saved_this_week |-> Undef]

EmptyMeta == [sessions |-> Undef, ltmCount |-> Undef,
              routing_stats |-> NoStats, token_savings |-> NoToken]

\* The README's configuration step: "token_savings": {"before_routing_avg": b}.
ConfiguredMeta(b) ==
    IF b = Undef THEN EmptyMeta
    ELSE [EmptyMeta EXCEPT !.token_savings =
             [NoToken EXCEPT !.present = TRUE, !.before_routing_avg = b]]

VARIABLES file, fileOk, now, inflight, nops, done, log, turn,
          sorted, cfg, selected,
          conf, index, tools, moods, out,
          input, returned, board, entities, registered,
          vtable, toolStats, sentiment

\* The ledger file, the clock, the handlers under way and their history.
ledgerVars == <<file, fileOk, now, inflight, nops, done, log, turn>>

\* memory-rerank: the scored list, the configuration, the selection.
rerankVars == <<sorted, cfg, selected>>

\* The memory layers: their configuration, memory-entity's entities.json,
\* memory-toolskill's toolskill.json, the entries of memory-sentiment's state
\* file, and what the last handler invocation did.
layerVars == <<conf, index, tools, moods, out>>

\* A function called on its own: its arguments and what it returned; the
\* items of memory-blackboard's board file and the entries of memory-entity's
\* entities.json by key; what the register of each plugin did.
\* One VectorTable of memory-epiproc with its callers; memory-toolskill's
\* toolskill.json; memory-sentiment's entries.
storeVars == <<vtable, toolStats, sentiment>>
callVars == <<input, returned, board, entities, registered, storeVars>>

\* What the ledger's handlers neither read nor write.
others == <<rerankVars, layerVars, callVars>>

vars == <<ledgerVars, rerankVars, layerVars, callVars>>

\* ------------------------------------------------------- meta-routing.js
\* loadMeta: a missing, unreadable or unparsable file is the empty document.
loadMeta == IF fileOk THEN file ELSE EmptyMeta

\* meta.routing_stats || (meta.routing_stats = {})
WithStats(meta) ==
    IF meta.routing_stats.present THEN meta
    ELSE [meta EXCEPT !.routing_stats.present = TRUE]

\* The entry created as if the layer had been activated once.
ensureLayer_Activated(stats, layer) ==
    IF stats.layers[layer].present THEN stats
    ELSE [stats EXCEPT !.layers[layer] = [NewEntry EXCEPT !.activations = 1]]

ensureLayer(stats, layer) ==
    IF stats.layers[layer].present THEN stats
    ELSE [stats EXCEPT !.layers[layer] = NewEntry]

\* chars added as given, without the Number.isFinite test.
SafeChars_NoGuard(chars) == chars

SafeChars(chars) == IF chars = NotFinite THEN 0 ELSE chars

\* recordRouting without its update of current_session_chars.
recordRouting_NoSessionChars(meta, layer, chars) ==
    LET stats == ensureLayer(WithStats(meta).routing_stats, layer)
        entry == stats.layers[layer]
        safeChars == SafeChars(chars)
    IN [meta EXCEPT !.routing_stats =
          [stats EXCEPT
             !.layers[layer] =
                 [entry EXCEPT
                    !.activations = Or0(entry.activations) + 1,
                    !.chars_injected = Or0(entry.chars_injected) + safeChars],
             !.total_activations = Or0(stats.total_activations) + 1,
             !.total_chars_injected = Or0(stats.total_chars_injected) + safeChars,
             !.current_session_activations =
                 Or0(stats.current_session_activations) + 1]]

\* The document recordRouting writes back; layer is not empty.
recordRouting(meta, layer, chars) ==
    LET stats == ensureLayer(WithStats(meta).routing_stats, layer)
        entry == stats.layers[layer]
        safeChars == SafeChars(chars)
    IN [meta EXCEPT !.routing_stats =
          [stats EXCEPT
             !.layers[layer] =
                 [entry EXCEPT
                    !.activations = Or0(entry.activations) + 1,
                    !.chars_injected = Or0(entry.chars_injected) + safeChars],
             !.total_activations = Or0(stats.total_activations) + 1,
             !.total_chars_injected = Or0(stats.total_chars_injected) + safeChars,
             !.current_session_chars = Or0(stats.current_session_chars) + safeChars,
             !.current_session_activations =
                 Or0(stats.current_session_activations) + 1]]

\* One feedback event on an entry: the counters, then useful_rate.
FeedbackEntry(entry, useful) ==
    LET up == IF useful THEN Or0(entry.useful_up) + 1 ELSE entry.useful_up
        down == IF useful THEN entry.useful_down ELSE Or0(entry.useful_down) + 1
        total == Or0(up) + Or0(down)
    IN [entry EXCEPT
          !.useful_up = up,
          !.useful_down = down,
          !.useful_rate = IF total > 0 THEN ToFixed2(up, total)
                          ELSE entry.useful_rate]

recordRoutingFeedback(meta, layer, useful) ==
    LET stats == ensureLayer(WithStats(meta).routing_stats, layer)
    IN [meta EXCEPT !.routing_stats =
          [stats EXCEPT !.layers[layer] = FeedbackEntry(stats.layers[layer], useful)]]

\* ------------------------------------------------- memory-meta/index.js
\* startOfWeek: Monday 00:00 UTC of the week of ts.  With the clock's origin
\* on a Monday, getUTCDay() is (day + 1) % 7, Sunday being 0.
TicksPerDay == 2
startOfWeek(ts) ==
    LET dayIndex == ts \div TicksPerDay
        day == (dayIndex + 1) % 7
        diff == (day + 6) % 7
    IN (dayIndex - diff) * TicksPerDay

\* 7 * 24 * 60 * 60 * 1000 ms
WeekTicks == 14

RECURSIVE ApplyEach(_, _)
ApplyEach(stats, feedbacks) ==
    IF feedbacks = << >> THEN stats
    ELSE LET fb == Head(feedbacks)
             next == IF fb.layer = "" THEN stats
                     ELSE LET s == ensureLayer(stats, fb.layer)
                          IN [s EXCEPT !.layers[fb.layer] =
                                 FeedbackEntry(s.layers[fb.layer], fb.useful)]
         IN ApplyEach(next, Tail(feedbacks))

applyFeedback(meta, feedbacks) ==
    IF feedbacks = << >> THEN meta
    ELSE [meta EXCEPT !.routing_stats =
             ApplyEach(WithStats(meta).routing_stats, feedbacks)]

\* The current-session counters left as they are.
ResetCurrent_Skip(stats) == stats

\* stats.current_session_chars = 0; stats.current_session_activations = 0
ResetCurrent(stats) ==
    [stats EXCEPT !.current_session_chars = 0, !.current_session_activations = 0]

finalizeRoutingSession(meta) ==
    LET stats == WithStats(meta).routing_stats
        sessionChars == Or0(stats.current_session_chars)
        sessionActs == Or0(stats.current_session_activations)
        sessions == Or0(stats.sessions) + 1
        totalChars == Or0(stats.total_session_chars) + sessionChars
    IN [meta EXCEPT !.routing_stats =
          ResetCurrent(
            [stats EXCEPT
               !.sessions = sessions,
               !.total_session_chars = totalChars,
               !.total_session_activations =
                   Or0(stats.total_session_activations) + sessionActs,
               !.after_routing_avg =
                   IF sessions # 0 THEN MathRound(totalChars, sessions) ELSE 0,
               !.last_session_chars = sessionChars,
               !.last_session_activations = sessionActs])]

\* The savings without Math.max(0, ...).
Saved_NoClamp(before, last) == MathRound(before - last, 1)

\* The savings of a session of `last` chars against the baseline `before`.
Saved(before, last) == Max(0, MathRound(before - last, 1))

\* The baseline taken as a number whether configured or not.
HasBaseline_Always(before) == TRUE

\* Number.isFinite(Number(token.before_routing_avg))
HasBaseline(before) == before # Undef

updateTokenSavings(meta, t) ==
    LET stats == meta.routing_stats
        token0 == [meta.token_savings EXCEPT !.present = TRUE]
        token == IF stats.after_routing_avg # Undef
                 THEN [token0 EXCEPT !.after_routing_avg = stats.after_routing_avg]
                 ELSE token0
        before == token.before_routing_avg
        saved == Saved(before, Or0(stats.last_session_chars))
        weekStart == IF token.week_start # Undef THEN token.week_start
                     ELSE startOfWeek(t)
        elapsed == t - weekStart >= WeekTicks
    IN IF ~stats.present THEN meta
       ELSE IF ~HasBaseline(before) THEN [meta EXCEPT !.token_savings = token]
       ELSE [meta EXCEPT !.token_savings =
               [token EXCEPT
                  !.saved_last_session = saved,
                  !.saved_total = Or0(token.saved_total) + saved,
                  !.week_start = IF elapsed THEN startOfWeek(t) ELSE token.week_start,
                  !.saved_this_week =
                      (IF elapsed THEN 0 ELSE Or0(token.saved_this_week)) + saved]]

\* String(match[3]).toLowerCase() on the values the inputs carry.
ToLowerCase(raw) ==
    CASE raw = "TRUE" -> "true"
      [] raw = "FALSE" -> "false"
      [] raw \in {"Ship v2", "SHIP V2"} -> "ship v2"
      [] OTHER -> raw

\* The regular expression of parseFeedbacks, flags gi, on one tag: the layer
\* is one or more of [a-z0-9_-] and the value one of true, false, 1, 0.
Matches(token) ==
    /\ token.marker
    /\ token.layer # ""
    /\ ToLowerCase(token.useful) \in {"true", "false", "1", "0"}

\* The value taken as written, without toLowerCase and without "1".
Useful_Exact(raw) == raw = "true"

\* const useful = raw === "true" || raw === "1"
Useful(raw) == ToLowerCase(raw) \in {"true", "1"}

\* parseFeedbacks: one {layer, useful} per match, in the order of the text.
RECURSIVE parseFeedbacks(_)
parseFeedbacks(text) ==
    IF text = << >> THEN << >>
    ELSE LET token == Head(text)
         IN (IF Matches(token)
             THEN << [layer |-> token.layer, useful |-> Useful(token.useful)] >>
             ELSE << >>) \o parseFeedbacks(Tail(text))

\* agent_end: the texts of the user messages, then the feedbacks of each text
\* in turn.
RECURSIVE CollectFeedbacks(_)
CollectFeedbacks(messages) ==
    IF messages = << >> THEN << >>
    ELSE LET msg == Head(messages)
         IN (IF msg.role = "user" THEN parseFeedbacks(msg.text) ELSE << >>)
               \o CollectFeedbacks(Tail(messages))

\* agent_end up to `await countLtm(...)`: the load and the session count.
AgentEndLoad(meta) == [meta EXCEPT !.sessions = Or0(meta.sessions) + 1]

\* agent_end after the await, up to the document handed to saveMeta.
AgentEndFinish(meta, event, t) ==
    LET m1 == IF event.ltm # Undef THEN [meta EXCEPT !.ltmCount = event.ltm] ELSE meta
        m2 == applyFeedback(m1, CollectFeedbacks(event.messages))
        m3 == finalizeRoutingSession(m2)
    IN updateTokenSavings(m3, t)

\* --------------------------------------------------------------- inputs
\* A text is a sequence of tokens: a word, or a marker
\* "memory-feedback layer=<layer> useful=<useful>" as it is written.
Word == [marker |-> FALSE, layer |-> "", useful |-> ""]
Marker(layer, useful) == [marker |-> TRUE, layer |-> layer, useful |-> useful]

UserMsg(text) == [role |-> "user", text |-> text]
AssistantMsg(text) == [role |-> "assistant", text |-> text]

\* The message lists of an agent_end event: none; a user text with a word and
\* a tag whose useful value is none of the four; one marker; a user text with
\* two markers, an assistant text with a marker, a user text without.
MessageLists ==
    { << >>,
      << UserMsg(<< Word, Marker("meta", "yes") >>) >>,
      << UserMsg(<< Marker("episodic", "TRUE") >>) >>,
      << UserMsg(<< Marker("meta", "0"), Word, Marker("meta", "1") >>),
         AssistantMsg(<< Marker("episodic", "false") >>),
         UserMsg(<< Word >>) >> }

\* An agent_end event: its messages, and what countLtm answers (Undef is null).
Events == [messages : MessageLists, ltm : LtmResults]

\* ----------------------------------------------------------------- state
\* done and log are history variables, written by no handler's code:
\* done[l] counts the recordRouting calls completed for layer l and sums
\* their chars, and counts the useful and not useful feedback events applied
\* to l; log follows the sessions: what was recorded since the last
\* finalization (curCalls, curChars), the number of finalizations, and, as
\* the ledger's specification defines them, the finalized sessions' chars,
\* their savings max(0, b - chars), and the savings of the sessions
\* finalized in the week that starts at weekOf; turn is the message list of
\* the last agent_end that went past its early return.
LedgerInit(b) ==
    /\ file = ConfiguredMeta(b)
    /\ fileOk = TRUE
    /\ now = 0
    /\ inflight = << >>
    /\ nops = 0
    /\ done = [l \in LedgerLayers |-> [calls |-> 0, chars |-> 0, up |-> 0, down |-> 0]]
    /\ log = [curCalls |-> 0, curChars |-> 0, finalized |-> 0, chars |-> 0,
              saved |-> 0, lastSaved |-> Undef, weekOf |-> Undef, weekSaved |-> 0]
    /\ turn = << >>

\* memory-rerank's DEFAULTS, and no selection made.
DefaultCfg == [minScore |-> 82, minGap |-> 8, maxDocuments |-> 8]

Pending == << [id |-> 0, score |-> Undef] >>

RerankIdle ==
    /\ sorted = << >>
    /\ cfg = DefaultCfg
    /\ selected = Pending

\* The plugins' DEFAULTS: alwaysRecall false, redaction enabled.
DefaultConf == [alwaysRecall |-> FALSE, redaction |-> TRUE]

\* toolskill.json without a tool: { tools: {} }.
NoTools == [total |-> 0, success |-> 0]

\* A prompt: its length, the layers whose keyword expression matches it, and
\* the entity and tool names that occur in it.
Prompt(length, matches, names) ==
    [length |-> length, matches |-> matches, names |-> names]

NoPrompt == Prompt(0, {}, {})

\* What a handler invocation did: the external calls it issued, the blocks of
\* the prependContext it returned, the layers it passed to recordRouting, the
\* fields it wrote to a table or a file, and how it ended: "returned",
\* "threw" (its promise rejected) or "awaiting" (never resumed).
Outcome(plugin, hook, prompt, status, calls, blocks, routed, saved) ==
    [plugin |-> plugin, hook |-> hook, prompt |-> prompt, status |-> status,
     calls |-> calls, blocks |-> blocks, routed |-> routed, saved |-> saved]

Idle == Outcome("", "", NoPrompt, "idle", << >>, << >>, << >>, {})

LayersIdle ==
    /\ conf = DefaultConf
    /\ index = {}
    /\ tools = NoTools
    /\ moods = 0
    /\ out = Idle

NoStores ==
    /\ vtable = << >>
    /\ toolStats = << >>
    /\ sentiment = << >>

NoCall ==
    /\ input = << >>
    /\ returned = << >>
    /\ board = << >>
    /\ entities = {}
    /\ registered = << >>
    /\ NoStores

Init ==
    /\ \E b \in Baselines : LedgerInit(b)
    /\ RerankIdle
    /\ LayersIdle
    /\ NoCall

\* saveMeta: fs.writeFileSync of the whole document.
saveMeta(meta) == file' = meta /\ fileOk' = TRUE

Step == nops < MaxOps /\ nops' = nops + 1

Recorded(layer, chars) ==
    /\ done' = [done EXCEPT ![layer].calls = @ + 1,
                            ![layer].chars = @ + SafeChars(chars)]
    /\ log' = [log EXCEPT !.curCalls = @ + 1, !.curChars = @ + SafeChars(chars)]

Count(feedbacks, layer, useful) ==
    Cardinality({i \in DOMAIN feedbacks :
                    feedbacks[i].layer = layer /\ feedbacks[i].useful = useful})

FedBack(feedbacks) ==
    done' = [l \in LedgerLayers |->
                [done[l] EXCEPT !.up = @ + Count(feedbacks, l, TRUE),
                                !.down = @ + Count(feedbacks, l, FALSE)]]

Finalized(t, b) ==
    LET saved == IF b = Undef THEN 0 ELSE Max(0, b - log.curChars)
        week == t - (t % WeekTicks)
    IN log' = [log EXCEPT
                 !.curCalls = 0,
                 !.curChars = 0,
                 !.finalized = @ + 1,
                 !.chars = @ + log.curChars,
                 !.saved = @ + saved,
                 !.lastSaved = IF b = Undef THEN Undef ELSE saved,
                 !.weekOf = week,
                 !.weekSaved = IF log.weekOf = week THEN @ + saved ELSE saved]

\* A layer's before_agent_start handler reaching recordRouting(layer, chars).
RecordRouting(layer, chars) ==
    /\ Step
    /\ IF layer = ""
       THEN UNCHANGED <<file, fileOk, done, log>>
       ELSE /\ saveMeta(recordRouting(loadMeta, layer, chars))
            /\ Recorded(layer, chars)
    /\ UNCHANGED <<now, inflight, turn>>
    /\ UNCHANGED others

RecordRoutingFeedback(layer, useful) ==
    /\ Step
    /\ IF layer = ""
       THEN UNCHANGED <<file, fileOk, done>>
       ELSE /\ saveMeta(recordRoutingFeedback(loadMeta, layer, useful))
            /\ FedBack(<< [layer |-> layer, useful |-> useful] >>)
    /\ UNCHANGED <<now, inflight, log, turn>>
    /\ UNCHANGED others

\* memory-meta's agent_end run without another handler in between.
AgentEndRun(event) ==
    /\ Step
    /\ IF event.messages = << >>
       THEN UNCHANGED <<file, fileOk, done, log, turn>>
       ELSE /\ saveMeta(AgentEndFinish(AgentEndLoad(loadMeta), event, now))
            /\ FedBack(CollectFeedbacks(event.messages))
            /\ Finalized(now, loadMeta.token_savings.before_routing_avg)
            /\ turn' = event.messages
    /\ UNCHANGED <<now, inflight>>

AgentEnd(event) ==
    /\ AgentEndRun(event)
    /\ UNCHANGED others

\* The same, the event delivered kept in input with its place in the run.
AgentEndDelivered(event) ==
    /\ AgentEndRun(event)
    /\ input' = [fn |-> "agent_end", event |-> event, at |-> nops']
    /\ UNCHANGED <<rerankVars, layerVars, returned, board, entities, registered, storeVars>>

\* agent_end up to its await: the loaded document stays in the handler.
AgentEndStart(event) ==
    /\ event.messages # << >>
    /\ Len(inflight) < MaxInflight
    /\ Step
    /\ inflight' = Append(inflight, [meta |-> AgentEndLoad(loadMeta), event |-> event])
    /\ UNCHANGED <<file, fileOk, now, done, log, turn>>
    /\ UNCHANGED others

\* agent_end resumed after the await: it saves the document it loaded.
AgentEndResume(i) ==
    /\ i \in 1..Len(inflight)
    /\ saveMeta(AgentEndFinish(inflight[i].meta, inflight[i].event, now))
    /\ FedBack(CollectFeedbacks(inflight[i].event.messages))
    /\ turn' = inflight[i].event.messages
    /\ Finalized(now, inflight[i].meta.token_savings.before_routing_avg)
    /\ inflight' = [j \in 1..(Len(inflight) - 1) |->
                       IF j < i THEN inflight[j] ELSE inflight[j + 1]]
    /\ UNCHANGED <<now, nops>>
    /\ UNCHANGED others

\* A save cut short (the process killed, or the disk full, inside
\* fs.writeFileSync): the file is left truncated and no longer parses.
TornSave ==
    /\ fileOk
    /\ Step
    /\ fileOk' = FALSE
    /\ file' = EmptyMeta
    /\ UNCHANGED <<now, inflight, done, log, turn>>
    /\ UNCHANGED others

Tick(d) ==
    /\ now + d <= MaxTime
    /\ now' = now + d
    /\ UNCHANGED <<file, fileOk, inflight, nops, done, log, turn>>
    /\ UNCHANGED others

Handlers ==
    \/ \E l \in LayerArgs, c \in CharArgs : RecordRouting(l, c)
    \/ \E l \in LayerArgs, u \in BOOLEAN : RecordRoutingFeedback(l, u)
    \/ \E d \in ClockSteps : Tick(d)

\* Handlers run one after the other.
Next ==
    \/ Handlers
    \/ \E e \in Events : AgentEnd(e)

Spec == Init /\ [][Next]_vars

\* Handlers run one after the other, every agent_end event kept.
NextTurn ==
    \/ \E l \in LayerArgs, c \in CharArgs : RecordRouting(l, c)
    \/ \E e \in Events : AgentEndDelivered(e)

SpecTurn == Init /\ [][NextTurn]_vars

\* Handlers interleave at agent_end's await.
NextConc ==
    \/ Handlers
    \/ \E e \in Events : AgentEndStart(e)
    \/ \E i \in 1..MaxInflight : AgentEndResume(i)

SpecConc == Init /\ [][NextConc]_vars

\* Handlers run one after the other; a save can be cut short.
NextFault ==
    \/ Next
    \/ TornSave

SpecFault == Init /\ [][NextFault]_vars

\* ------------------------------------------- saveMeta with a failing write
\* How fs.writeFileSync ends: "ok"; "EACCES", thrown by the open, the file
\* untouched; "ENOSPC", thrown by a write after the open truncated the file.
WriteOutcomes == {"ok", "EACCES", "ENOSPC"}

\* saveMeta: try { mkdirSync; writeFileSync } catch { /* best effort */ }
saveMetaOutcome(meta, io) ==
    CASE io = "ok" -> file' = meta /\ fileOk' = TRUE
      [] io = "EACCES" -> UNCHANGED <<file, fileOk>>
      [] io = "ENOSPC" -> file' = EmptyMeta /\ fileOk' = FALSE

\* recordRouting with the write ending as io; returned is how the call
\* ended: no statement outside loadMeta's and saveMeta's try can throw on a
\* document the handlers wrote.
RecordRoutingWrite(layer, chars, io) ==
    /\ Step
    /\ input' = [fn |-> "recordRouting", layer |-> layer, write |-> io]
    /\ returned' = "undefined"
    /\ IF layer = ""
       THEN UNCHANGED <<file, fileOk, done, log>>
       ELSE /\ saveMetaOutcome(recordRouting(loadMeta, layer, chars), io)
            /\ Recorded(layer, chars)
    /\ UNCHANGED <<now, inflight, turn, rerankVars, layerVars, board, entities,
                   registered, storeVars>>

RecordRoutingFeedbackWrite(layer, useful, io) ==
    /\ Step
    /\ input' = [fn |-> "recordRoutingFeedback", layer |-> layer, write |-> io]
    /\ returned' = "undefined"
    /\ IF layer = ""
       THEN UNCHANGED <<file, fileOk, done>>
       ELSE /\ saveMetaOutcome(recordRoutingFeedback(loadMeta, layer, useful), io)
            /\ FedBack(<< [layer |-> layer, useful |-> useful] >>)
    /\ UNCHANGED <<now, inflight, log, turn, rerankVars, layerVars, board, entities,
                   registered, storeVars>>

NextWrite ==
    \/ \E l \in LayerArgs, c \in CharArgs, io \in WriteOutcomes :
          RecordRoutingWrite(l, c, io)
    \/ \E l \in LayerArgs, u \in BOOLEAN, io \in WriteOutcomes :
          RecordRoutingFeedbackWrite(l, u, io)

SpecWrite == Init /\ [][NextWrite]_vars

\* ------------------------------------------- memory-rerank (part_002)
\* Array.prototype.slice(0, n) left out: the whole list.
Slice_All(seq, n) == seq

\* seq.slice(0, n) for an integer n >= 0.
Slice(seq, n) == SubSeq(seq, 1, IF n < Len(seq) THEN n ELSE Len(seq))

\* The gap taken from the first item selected.
WithinGap_First(sel, item, c) == sel[1].score - item.score <= c.minGap

\* prev.score - item.score <= cfg.minGap, prev being the last item selected.
WithinGap(sel, item, c) == sel[Len(sel)].score - item.score <= c.minGap

\* The loop of selectTopCluster over the items not yet visited: an item under
\* minScore is passed over, the first other item is taken, a later one is
\* taken when within minGap of the last taken and ends the loop otherwise;
\* the length test comes after a push other than the first.
RECURSIVE ClusterLoop(_, _, _)
ClusterLoop(rest, sel, c) ==
    IF rest = << >> THEN sel
    ELSE LET item == Head(rest)
         IN IF item.score < c.minScore THEN ClusterLoop(Tail(rest), sel, c)
            ELSE IF Len(sel) = 0 THEN ClusterLoop(Tail(rest), << item >>, c)
            ELSE IF WithinGap(sel, item, c)
                 THEN LET pushed == Append(sel, item)
                      IN IF Len(pushed) >= c.maxDocuments THEN pushed
                         ELSE ClusterLoop(Tail(rest), pushed, c)
                 ELSE sel

\* No fallback: nothing is returned when nothing was selected.
Fallback_Nothing(list, c) == << >>

\* if (selected.length === 0) return sorted.slice(0, cfg.maxDocuments)
Fallback(list, c) == Slice(list, c.maxDocuments)

selectTopCluster(list, c) ==
    LET sel == ClusterLoop(list, << >>, c)
    IN IF Len(sel) = 0 THEN Fallback(list, c)
       ELSE Slice(sel, c.maxDocuments)

\* Scores in hundredths, around the default minScore (82) and minGap (8).
Scores == {50, 80, 85, 90, 95}

\* The lists scored.sort((a, b) => b.score - a.score) can produce.
SortedLists ==
    UNION { { [i \in 1..n |-> [id |-> i, score |-> f[i]]] :
                 f \in { g \in [1..n -> Scores] :
                            \A i \in 1..(n - 1) : g[i] >= g[i + 1] } } :
            n \in 1..MaxCandidates }

\* normalizeConfig: minScore and minGap within 0..1, maxDocuments >= 1.
Cfgs == [minScore : {0, 82}, minGap : {0, 8}, maxDocuments : {1, 2, 8}]

InitCluster ==
    /\ LedgerInit(Undef)
    /\ sorted \in SortedLists
    /\ cfg \in Cfgs
    /\ selected = Pending
    /\ LayersIdle
    /\ NoCall

\* const selected = selectTopCluster(scored, cfg)
SelectTopCluster ==
    /\ selected = Pending
    /\ selected' = selectTopCluster(sorted, cfg)
    /\ UNCHANGED <<ledgerVars, sorted, cfg, layerVars, callVars>>

NextCluster == SelectTopCluster

SpecCluster == InitCluster /\ [][NextCluster]_vars

\* ------------------------------------------------------ the memory layers
\* Plugins: memory-epiproc (layers episodic and procedural), memory-entity,
\* memory-goal (part_000), memory-timeline (part_001), memory-graph
\* (.github/ISSUE_TEMPLATE/bug_report.md), memory-toolskill, memory-meta,
\* memory-sentiment and memory-rerank (part_002).  The embedding provider,
\* the vector tables, the LTM search command and the reranker are outside the
\* program: a call to one of them is answered "ok", fails ("fail": the promise
\* rejects) or is never answered ("hang").  A text is followed by whether it
\* carries an unmasked secret-shaped token (leak).

\* The layers whose handler tests alwaysRecall and a keyword expression (for
\* tool_skill, the tool names of the prompt); memory-rerank tests the length
\* of the prompt and nothing else.
GatedLayers == LedgerLayers

MinLength(layer) == IF layer \in {"episodic", "procedural", "rerank"} THEN 5 ELSE 3

\* shouldRecallEpisodic, shouldRecallProcedural, shouldRecallEntities,
\* shouldRecallGoals, shouldRecallGraph, shouldRecall; for tool_skill, a tool
\* name of the prompt (selectToolsForPrompt).
shouldRecall(layer, prompt) ==
    IF layer = "tool_skill" THEN "exec" \in prompt.names
    ELSE layer \in prompt.matches

\* cfg.alwaysRecall || shouldRecall(prompt)
Allowed(layer, prompt) == conf.alwaysRecall \/ shouldRecall(layer, prompt)

Prompts ==
    { Prompt(2, {}, {}),
      Prompt(4, GatedLayers, {"atlas", "exec"}),
      Prompt(20, {}, {}),
      Prompt(20, {}, {"atlas", "exec"}),
      Prompt(20, {"episodic"}, {}),
      Prompt(20, GatedLayers, {}) }

\* The answers to embeddings.embed and table.search within one recall, and
\* whether the search, when answered, leaves entries at or above minScore.
RecallEnvs ==
    { [embed |-> "fail", search |-> "ok", hits |-> FALSE],
      [embed |-> "hang", search |-> "ok", hits |-> FALSE],
      [embed |-> "ok", search |-> "fail", hits |-> FALSE],
      [embed |-> "ok", search |-> "hang", hits |-> FALSE],
      [embed |-> "ok", search |-> "ok", hits |-> FALSE],
      [embed |-> "ok", search |-> "ok", hits |-> TRUE] }

\* The answers to the two recalls of memory-epiproc: one of them leaves
\* entries, or both are answered alike.
EpiprocEnvs ==
    { e \in RecallEnvs \X RecallEnvs : e[1].hits \/ e[2].hits \/ e[1] = e[2] }

\* An external call: timer says whether the code bounds it by a timeout.
Call(layer, call, timer, answer, leak) ==
    [layer |-> layer, call |-> call, timer |-> timer, answer |-> answer, leak |-> leak]

\* Embeddings.embed: client.embeddings.create, no timeout given.
Embed(layer, answer, leak) == Call(layer, "embed", FALSE, answer, leak)

\* recallEntries, and the embed-then-search of the other layers: the calls
\* issued and the result, "fail" and "hang" being those of the first call
\* not answered "ok".
recallEntries(layer, env) ==
    LET embed == Embed(layer, env.embed, FALSE)
        search == Call(layer, "search", FALSE, env.search, FALSE)
    IN IF env.embed # "ok" THEN [calls |-> << embed >>, result |-> env.embed]
       ELSE [calls |-> << embed, search >>,
             result |-> IF env.search # "ok" THEN env.search
                        ELSE IF env.hits THEN "hits" ELSE "none"]

Block(layer, from) == [layer |-> layer, from |-> from]

\* A block formatted whatever the recall gave.
Formatted_Always(layer, result) == << Block(layer, {"vector"}) >>

\* The block a recall leads to: formatted when entries came back, none when
\* the recall failed (the catch) or found nothing.
Formatted(layer, result) ==
    IF result = "hits" THEN << Block(layer, {"vector"}) >> ELSE << >>

RECURSIVE LayersOf(_)
LayersOf(blocks) ==
    IF blocks = << >> THEN << >>
    ELSE << Head(blocks).layer >> \o LayersOf(Tail(blocks))

Skipped(plugin, prompt) ==
    Outcome(plugin, "before_agent_start", prompt, "returned", << >>, << >>, << >>, {})

\* A before_agent_start handler that ran its recall: it returns the blocks
\* with one recordRouting each, or stays at the call never answered, the
\* recordRouting calls before it made.
Recalled(plugin, prompt, calls, blocks, hung) ==
    Outcome(plugin, "before_agent_start", prompt,
            IF hung THEN "awaiting" ELSE "returned",
            calls, IF hung THEN << >> ELSE blocks, LayersOf(blocks), {})

\* memory-epiproc, before_agent_start: each layer in its own try/catch.
EpiprocRecall(prompt, envE, envP) ==
    LET episodicAllowed == Allowed("episodic", prompt)
        proceduralAllowed == Allowed("procedural", prompt)
        e == recallEntries("episodic", envE)
        p == recallEntries("procedural", envP)
        eHung == episodicAllowed /\ e.result = "hang"
        pRuns == proceduralAllowed /\ ~eHung
        calls == (IF episodicAllowed THEN e.calls ELSE << >>)
                     \o (IF pRuns THEN p.calls ELSE << >>)
        blocks == (IF episodicAllowed THEN Formatted("episodic", e.result) ELSE << >>)
                      \o (IF pRuns THEN Formatted("procedural", p.result) ELSE << >>)
        hung == eHung \/ (pRuns /\ p.result = "hang")
    IN IF prompt.length < MinLength("episodic")
          \/ (~episodicAllowed /\ ~proceduralAllowed)
       THEN Skipped("memory-epiproc", prompt)
       ELSE Recalled("memory-epiproc", prompt, calls, blocks, hung)

\* memory-entity, before_agent_start: the entries of entities.json whose name
\* occurs in the prompt, then, when allowVector, the vector search in a
\* try/catch; one block of both together.
EntityRecall(prompt, env) ==
    LET matched == {e \in index : e.name \in prompt.names}
        allowVector == Allowed("entity", prompt)
        r == recallEntries("entity", env)
        hung == allowVector /\ r.result = "hang"
        from == (IF matched # {} THEN {"index"} ELSE {})
                   \cup (IF allowVector /\ r.result = "hits" THEN {"vector"} ELSE {})
    IN IF prompt.length < MinLength("entity") THEN Skipped("memory-entity", prompt)
       ELSE Recalled("memory-entity", prompt,
                     IF allowVector THEN r.calls ELSE << >>,
                     IF hung \/ from = {} THEN << >> ELSE << Block("entity", from) >>,
                     hung)

\* memory-goal, memory-timeline, memory-graph, before_agent_start: the gate,
\* then embed, search, format and recordRouting in one try/catch.
VectorRecall(plugin, layer, prompt, env) ==
    LET r == recallEntries(layer, env)
    IN IF prompt.length < MinLength(layer) \/ ~Allowed(layer, prompt)
       THEN Skipped(plugin, prompt)
       ELSE Recalled(plugin, prompt, r.calls, Formatted(layer, r.result),
                     r.result = "hang")

VectorPlugins ==
    { <<"memory-goal", "goal">>, <<"memory-timeline", "timeline">>,
      <<"memory-graph", "graph">> }

\* formatToolSummary: total >= minTotal (2) and success / total >=
\* minSuccessRate (0.6).
ToolSummary(tool) == tool.total >= 2 /\ 10 * tool.success >= 6 * tool.total

\* memory-toolskill, before_agent_start: the tools of the stats, all of them
\* with alwaysRecall, else those named in the prompt.
ToolskillRecall(prompt) ==
    LET known == IF tools.total > 0 THEN {"exec"} ELSE {}
        chosen == IF conf.alwaysRecall THEN known ELSE known \cap prompt.names
    IN IF prompt.length < MinLength("tool_skill") \/ chosen = {} \/ ~ToolSummary(tools)
       THEN Skipped("memory-toolskill", prompt)
       ELSE Recalled("memory-toolskill", prompt, << >>,
                     << Block("tool_skill", {"file"}) >>, FALSE)

\* memory-meta, before_agent_start: whether the document gives a line.
MetaLines(meta) ==
    \/ meta.sessions # Undef
    \/ meta.ltmCount # Undef
    \/ \E l \in LedgerLayers : meta.routing_stats.layers[l].present

\* memory-meta and memory-sentiment, before_agent_start: the gate, then a
\* block of what the plugin's file holds, if anything.
LocalRecall(plugin, layer, prompt, content) ==
    IF prompt.length < MinLength(layer) \/ ~Allowed(layer, prompt) \/ ~content
    THEN Skipped(plugin, prompt)
    ELSE Recalled(plugin, prompt, << >>, << Block(layer, {"file"}) >>, FALSE)

\* The answers to the LTM search command and to the reranker's requests, and
\* whether the search gave candidates.
RerankEnvs ==
    { [ltm |-> "fail", hits |-> FALSE, rerank |-> "ok"],
      [ltm |-> "hang", hits |-> FALSE, rerank |-> "ok"],
      [ltm |-> "ok", hits |-> FALSE, rerank |-> "ok"],
      [ltm |-> "ok", hits |-> TRUE, rerank |-> "ok"],
      [ltm |-> "ok", hits |-> TRUE, rerank |-> "fail"],
      [ltm |-> "ok", hits |-> TRUE, rerank |-> "hang"] }

\* Two candidates scored and sorted: by the reranker when it answers, by
\* their LTM score when scoreCandidate returns null (its catch, its timer).
Scored(answer) ==
    IF answer = "ok" THEN << [id |-> 2, score |-> 95], [id |-> 1, score |-> 60] >>
    ELSE << [id |-> 1, score |-> 90], [id |-> 2, score |-> 85] >>

\* memory-rerank, before_agent_start: the length test, the LTM search under
\* runCommandWithTimeout, a reranker request under an AbortController timer
\* for each candidate, selectTopCluster, and the block; no recordRouting.
RerankRecall(prompt, env) ==
    LET search == Call("rerank", "ltm_search", TRUE, env.ltm, FALSE)
        score == Call("rerank", "rerank", TRUE, env.rerank, FALSE)
        chosen == selectTopCluster(Scored(env.rerank), DefaultCfg)
    IN IF prompt.length < MinLength("rerank") THEN Skipped("memory-rerank", prompt)
       ELSE IF env.ltm # "ok" \/ ~env.hits
       THEN Outcome("memory-rerank", "before_agent_start", prompt, "returned",
                    << search >>, << >>, << >>, {})
       ELSE Outcome("memory-rerank", "before_agent_start", prompt, "returned",
                    << search, score, score >>,
                    IF Len(chosen) > 0 THEN << Block("rerank", {"ltm"}) >> ELSE << >>,
                    << >>, {})

\* An agent_end event: whether it has messages; whether their text (and the
\* tool arguments) carries a secret-shaped token; the lines the extractors
\* recognize in it (an event line, an entity line, sentiment words); its tool
\* results.
Turns ==
    { [some |-> FALSE, leak |-> FALSE, lines |-> {}, results |-> << >>],
      [some |-> TRUE, leak |-> FALSE, lines |-> {}, results |-> << "error" >>] }
    \cup { [some |-> TRUE, leak |-> l, lines |-> {"event", "entity", "mood"},
            results |-> << "ok", "ok" >>] : l \in BOOLEAN }

\* The answers to embeddings.embed and table.store within one capture.
CaptureEnvs ==
    { [embed |-> "fail", store |-> "ok"],
      [embed |-> "hang", store |-> "ok"],
      [embed |-> "ok", store |-> "fail"],
      [embed |-> "ok", store |-> "hang"],
      [embed |-> "ok", store |-> "ok"] }

\* The answers to the two captures of memory-epiproc: one of them is stored,
\* or both are answered alike.
EpiprocCaptureEnvs ==
    { e \in CaptureEnvs \X CaptureEnvs :
        \/ e[1] = [embed |-> "ok", store |-> "ok"]
        \/ e[2] = [embed |-> "ok", store |-> "ok"]
        \/ e[1] = e[2] }

\* redactSensitive(text, enabled): every secret-shaped token replaced by
\* "[redacted]" when enabled, the text as it is otherwise.
redactSensitive(leak, enabled) == leak /\ ~enabled

\* A field written to a vector table or to a file.
Field(store, field, leak) == [store |-> store, field |-> field, leak |-> leak]

\* await embeddings.embed(text); await table.store(row): the calls issued,
\* the answer of the last one, the fields of the row once stored.
EmbedStore(layer, env, text, row) ==
    LET embed == Embed(layer, env.embed, text)
        store == Call(layer, "store", FALSE, env.store, \E f \in row : f.leak)
    IN IF env.embed # "ok"
       THEN [calls |-> << embed >>, result |-> env.embed, saved |-> {}]
       ELSE [calls |-> << embed, store >>, result |-> env.store,
             saved |-> IF env.store = "ok" THEN row ELSE {}]

Ended(plugin, status, calls, saved) ==
    Outcome(plugin, "agent_end", NoPrompt, status, calls, << >>, << >>, saved)

Successes(results) == Cardinality({i \in DOMAIN results : results[i] = "ok"})

\* memory-epiproc, agent_end: the episode, then the procedure when the turn
\* has minSteps (2) successful tool results, each in its own try/catch.  The
\* texts go through redactSensitive; the episode's meta carries userText and
\* assistantText as buildEpisode cut them.
EpiprocCapture(t, envE, envP) ==
    LET text == redactSensitive(t.leak, conf.redaction)
        e == EmbedStore("episodic", envE, text,
                        { Field("episodes", "text", text),
                          Field("episodes", "meta", t.leak) })
        p == EmbedStore("procedural", envP, text,
                        { Field("procedures", "text", text),
                          Field("procedures", "meta", text) })
        eHung == e.result = "hang"
        pRuns == Successes(t.results) >= 2 /\ ~eHung
        stats == IF p.result = "ok"
                 THEN { Field("procedures-stats.json", "patternKey", text) } ELSE {}
    IN IF ~t.some THEN Ended("memory-epiproc", "returned", << >>, {})
       ELSE Ended("memory-epiproc",
                  IF eHung \/ (pRuns /\ p.result = "hang") THEN "awaiting"
                  ELSE "returned",
                  e.calls \o (IF pRuns THEN p.calls ELSE << >>),
                  e.saved \cup (IF pRuns THEN p.saved \cup stats ELSE {}))

\* memory-entity, agent_end: embed and store of the entity with no try/catch
\* around them, then the entry of entities.json.  The summary goes through
\* redactSensitive; the row's meta carries the details as extracted.
EntityCapture(t, env) ==
    LET summary == redactSensitive(t.leak, conf.redaction)
        c == EmbedStore("entity", env, summary,
                        { Field("entities", "text", summary),
                          Field("entities", "meta", t.leak) })
        status == CASE c.result = "fail" -> "threw"
                    [] c.result = "hang" -> "awaiting"
                    [] OTHER -> "returned"
        entry == IF c.result = "ok"
                 THEN { Field("entities.json", "summary", summary) } ELSE {}
    IN IF ~t.some \/ "entity" \notin t.lines
       THEN Ended("memory-entity", "returned", << >>, {})
       ELSE Ended("memory-entity", status, c.calls, c.saved \cup entry)

\* memory-timeline, agent_end: embed and store of the event in a try/catch;
\* the plugin has no redactSensitive.
TimelineCapture(t, env) ==
    LET c == EmbedStore("timeline", env, t.leak,
                        { Field("timeline", "text", t.leak),
                          Field("timeline", "meta", t.leak) })
    IN IF ~t.some \/ "event" \notin t.lines
       THEN Ended("memory-timeline", "returned", << >>, {})
       ELSE Ended("memory-timeline",
                  IF c.result = "hang" THEN "awaiting" ELSE "returned",
                  c.calls, c.saved)

\* memory-sentiment, agent_end: an entry with the first 160 chars of the user
\* text as its sample; the plugin has no redactSensitive.
SentimentCapture(t) ==
    IF ~t.some \/ "mood" \notin t.lines
    THEN Ended("memory-sentiment", "returned", << >>, {})
    ELSE Ended("memory-sentiment", "returned", << >>,
               { Field("sentiment.json", "sample", t.leak) })

\* memory-toolskill, agent_end: the stats of the tool, the example being the
\* arguments as summarizeArgs redacts them.
ToolskillCapture(t) ==
    IF ~t.some \/ t.results = << >>
    THEN Ended("memory-toolskill", "returned", << >>, {})
    ELSE Ended("memory-toolskill", "returned", << >>,
               { Field("toolskill.json", "examples",
                       redactSensitive(t.leak, conf.redaction)) })

\* The length of a formatted block's body.
BodyLength == 500

RECURSIVE RecordEach(_, _)
RecordEach(meta, routed) ==
    IF routed = << >> THEN meta
    ELSE RecordEach(recordRouting(meta, Head(routed), BodyLength), Tail(routed))

Times(routed, l) == Cardinality({i \in DOMAIN routed : routed[i] = l})

RecordedEach(routed) ==
    /\ done' = [l \in LedgerLayers |->
                   [done[l] EXCEPT !.calls = @ + Times(routed, l),
                                   !.chars = @ + Times(routed, l) * BodyLength]]
    /\ log' = [log EXCEPT !.curCalls = @ + Len(routed),
                          !.curChars = @ + Len(routed) * BodyLength]

\* One handler invocation with the outcome o: its recordRouting calls reach
\* the ledger file.
Invoke(o) ==
    /\ nops < MaxHandlers
    /\ nops' = nops + 1
    /\ out' = o
    /\ IF o.routed = << >>
       THEN UNCHANGED <<file, fileOk, done, log>>
       ELSE /\ saveMeta(RecordEach(loadMeta, o.routed))
            /\ RecordedEach(o.routed)
    /\ UNCHANGED <<now, inflight, turn, rerankVars, conf, callVars>>

EpiprocBeforeAgentStart(prompt, envE, envP) ==
    /\ Invoke(EpiprocRecall(prompt, envE, envP))
    /\ UNCHANGED <<index, tools, moods>>

EntityBeforeAgentStart(prompt, env) ==
    /\ Invoke(EntityRecall(prompt, env))
    /\ UNCHANGED <<index, tools, moods>>

VectorBeforeAgentStart(plugin, layer, prompt, env) ==
    /\ Invoke(VectorRecall(plugin, layer, prompt, env))
    /\ UNCHANGED <<index, tools, moods>>

ToolskillBeforeAgentStart(prompt) ==
    /\ Invoke(ToolskillRecall(prompt))
    /\ UNCHANGED <<index, tools, moods>>

MetaBeforeAgentStart(prompt) ==
    /\ Invoke(LocalRecall("memory-meta", "meta", prompt, MetaLines(loadMeta)))
    /\ UNCHANGED <<index, tools, moods>>

SentimentBeforeAgentStart(prompt) ==
    /\ Invoke(LocalRecall("memory-sentiment", "sentiment", prompt, moods > 0))
    /\ UNCHANGED <<index, tools, moods>>

RerankBeforeAgentStart(prompt, env) ==
    /\ Invoke(RerankRecall(prompt, env))
    /\ UNCHANGED <<index, tools, moods>>

EpiprocAgentEnd(t, envE, envP) ==
    /\ Invoke(EpiprocCapture(t, envE, envP))
    /\ UNCHANGED <<index, tools, moods>>

\* saveIndex runs when the loop over the entities ran to its end.
EntityAgentEnd(t, env) ==
    /\ Invoke(EntityCapture(t, env))
    /\ index' = IF \E f \in EntityCapture(t, env).saved : f.store = "entities.json"
                THEN index \cup { [name |-> "atlas",
                                   leak |-> redactSensitive(t.leak, conf.redaction)] }
                ELSE index
    /\ UNCHANGED <<tools, moods>>

TimelineAgentEnd(t, env) ==
    /\ Invoke(TimelineCapture(t, env))
    /\ UNCHANGED <<index, tools, moods>>

SentimentAgentEnd(t) ==
    /\ Invoke(SentimentCapture(t))
    /\ moods' = moods + Cardinality(SentimentCapture(t).saved)
    /\ UNCHANGED <<index, tools>>

ToolskillAgentEnd(t) ==
    /\ Invoke(ToolskillCapture(t))
    /\ tools' = IF t.some
                THEN [total |-> tools.total + Len(t.results),
                      success |-> tools.success + Successes(t.results)]
                ELSE tools
    /\ UNCHANGED <<index, moods>>

InitLayers ==
    /\ LedgerInit(Undef)
    /\ RerankIdle
    /\ conf \in [alwaysRecall : BOOLEAN, redaction : BOOLEAN]
    /\ index = {}
    /\ tools = NoTools
    /\ moods = 0
    /\ out = Idle
    /\ NoCall

\* The host fires before_agent_start and agent_end; the handlers of the
\* plugins run one after the other.
NextLayers ==
    \/ \E p \in Prompts, e \in EpiprocEnvs :
          EpiprocBeforeAgentStart(p, e[1], e[2])
    \/ \E p \in Prompts, e \in RecallEnvs : EntityBeforeAgentStart(p, e)
    \/ \E v \in VectorPlugins, p \in Prompts, e \in RecallEnvs :
          VectorBeforeAgentStart(v[1], v[2], p, e)
    \/ \E p \in Prompts : ToolskillBeforeAgentStart(p)
    \/ \E p \in Prompts : MetaBeforeAgentStart(p)
    \/ \E p \in Prompts : SentimentBeforeAgentStart(p)
    \/ \E p \in Prompts, e \in RerankEnvs : RerankBeforeAgentStart(p, e)
    \/ \E t \in Turns, e \in EpiprocCaptureEnvs :
          EpiprocAgentEnd(t, e[1], e[2])
    \/ \E t \in Turns, e \in CaptureEnvs : EntityAgentEnd(t, e)
    \/ \E t \in Turns, e \in CaptureEnvs : TimelineAgentEnd(t, e)
    \/ \E t \in Turns : SentimentAgentEnd(t)
    \/ \E t \in Turns : ToolskillAgentEnd(t)

SpecLayers == InitLayers /\ [][NextLayers]_vars

\* ------------------------------------------------------ computeDecayScore
\* Time in days, scores in hundredths, the returned score in hundred-
\* thousandths (score * decay, decay in thousandths).

\* Math.exp(-k / 4) in thousandths, k = 0, 1, ...; under a thousandth after
\* the table.
ExpDown ==
    << 1000, 779, 607, 472, 368, 287, 223, 174, 135, 105, 82, 64, 50, 39,
       30, 24, 18, 14, 11, 9, 7, 5, 4, 3, 2, 2, 2, 1, 1, 1, 1, 0, 0 >>

\* Math.exp(k) in thousandths, k = 0, 1, ...
ExpUp ==
    << 1000, 2718, 7389, 20086, 54598, 148413, 403429 >>

\* Math.exp(-ageMs / halfLifeMs): -0 / 0 is NaN, -x / 0 is -Infinity.
MathExp(ageMs, halfLifeMs) ==
    IF halfLifeMs = 0 THEN (IF ageMs = 0 THEN NaN ELSE 0)
    ELSE IF halfLifeMs < 0 THEN ExpUp[(ageMs \div (0 - halfLifeMs)) + 1]
    ELSE LET k == (4 * ageMs) \div halfLifeMs
         IN IF k + 1 > Len(ExpDown) THEN 0 ELSE ExpDown[k + 1]

\* Math.max(0, Date.now() - createdAt) in memory-epiproc and memory-graph,
\* Math.max(0, Date.now() - (updatedAt || Date.now())) in memory-goal and
\* memory-timeline; a number minus undefined is NaN, and so is its maximum
\* with 0.
AgeMs(plugin, today, createdAt) ==
    IF createdAt = Undef
    THEN (IF plugin \in {"memory-goal", "memory-timeline"} THEN 0 ELSE NaN)
    ELSE Max(0, today - createdAt)

\* No guard: the division is made whatever the half-life.
NoDecay_Never(halfLifeMs) == FALSE

\* if (halfLifeMs <= 0) return score
NoDecay(halfLifeMs) == halfLifeMs <= 0

computeDecayScore(plugin, score, createdAt, halfLifeDays, today) ==
    LET ageMs == AgeMs(plugin, today, createdAt)
        halfLifeMs == halfLifeDays
    IN IF NoDecay(halfLifeMs) THEN score * 1000
       ELSE IF ageMs = NaN \/ MathExp(ageMs, halfLifeMs) = NaN THEN NaN
       ELSE score * MathExp(ageMs, halfLifeMs)

\* The calls: a raw score in (0, 1], a record of today, of an earlier day, of
\* tomorrow or with no timestamp, a half-life.
DecayCalls ==
    [plugin : {"memory-epiproc", "memory-goal"},
     score : {1, 50, 100},
     createdAt : (0..(MaxAgeDays + 1)) \cup {Undef},
     halfLifeDays : {-1, 0, 1, 2, 4},
     today : {MaxAgeDays}]

InitDecay ==
    /\ LedgerInit(Undef)
    /\ RerankIdle
    /\ LayersIdle
    /\ input \in DecayCalls
    /\ returned = Undef
    /\ board = << >>
    /\ entities = {}
    /\ registered = << >>
    /\ NoStores

ComputeDecayScore ==
    /\ returned = Undef
    /\ returned' = computeDecayScore(input.plugin, input.score, input.createdAt,
                                   input.halfLifeDays, input.today)
    /\ UNCHANGED <<ledgerVars, rerankVars, layerVars, input, board, entities, registered, storeVars>>

NextDecay == ComputeDecayScore

SpecDecay == InitDecay /\ [][NextDecay]_vars

\* ------------------------------- recall: rescoring, filter, order, limit
\* results.map(...): every row with its computeDecayScore; a row is known by
\* its place in the search result.
Rescored(plugin, raw, c, today) ==
    [i \in 1..Len(raw) |->
        [id |-> i, status |-> raw[i].status,
         adjusted |-> computeDecayScore(plugin, raw[i].score, raw[i].createdAt,
                                        c.halfLifeDays, today)]]

\* No threshold.
AtLeast_Any(adjusted, minScore) == TRUE

\* item.adjustedScore >= cfg.minScore, the adjusted score in
\* hundred-thousandths and minScore in hundredths; NaN is above nothing.
AtLeast(adjusted, minScore) == adjusted # NaN /\ adjusted >= minScore * 1000

Filtered(items, minScore) ==
    SelectSeq(items, LAMBDA item : AtLeast(item.adjusted, minScore))

IsActive(item) == ToLowerCase(item.status) = "active"

\* The comparator by the score alone.
Before_ByScore(plugin, a, b) == a.adjusted > b.adjusted

\* The comparator is negative: a goes before b.  memory-epiproc compares
\* b.adjustedScore - a.adjustedScore; memory-goal puts an active goal before
\* one that is not, then compares the scores.
Before(plugin, a, b) ==
    IF plugin = "memory-goal" /\ IsActive(a) # IsActive(b)
    THEN IsActive(a)
    ELSE a.adjusted > b.adjusted

\* Array.prototype.sort is stable: an item goes behind those it is not
\* before.
RECURSIVE Sorted(_, _)
Sorted(plugin, items) ==
    IF items = << >> THEN << >>
    ELSE LET rest == Sorted(plugin, SubSeq(items, 1, Len(items) - 1))
             item == items[Len(items)]
             ahead == {k \in 0..Len(rest) :
                          \A j \in (k + 1)..Len(rest) : Before(plugin, item, rest[j])}
             k == CHOOSE k \in ahead : \A m \in ahead : k <= m
         IN SubSeq(rest, 1, k) \o << item >> \o SubSeq(rest, k + 1, Len(rest))

\* .slice(0, c.recallLimit)
Top(items, recallLimit) ==
    SubSeq(items, 1, IF Len(items) < recallLimit THEN Len(items) ELSE recallLimit)

\* recallEntries sorts, filters and slices; memory-goal filters, sorts and
\* slices.
recalled(plugin, raw, c, today) ==
    LET scored == Rescored(plugin, raw, c, today)
    IN IF plugin = "memory-goal"
       THEN Top(Sorted(plugin, Filtered(scored, c.minScore)), c.recallLimit)
       ELSE Top(Filtered(Sorted(plugin, scored), c.minScore), c.recallLimit)

\* What table.search gave: at most 3 * recallLimit rows, each with a raw
\* score, the day it was written and, for a goal, its status.
Hits(plugin) ==
    LET rows == [score : {40, 100},
                 createdAt : {MaxAgeDays - 2, MaxAgeDays},
                 status : IF plugin = "memory-goal" THEN {"active", "done"} ELSE {""}]
    IN UNION { [1..n -> rows] : n \in 0..MaxHits }

\* normalizeConfig: recallLimit >= 1, 0 <= minScore <= 1, halfLifeDays >= 1.
RecallCfgs == [recallLimit : {1, 2}, minScore : {0, 35, 100}, halfLifeDays : {1, 4}]

NotRecalled == [entries |-> << >>, injected |-> FALSE, ended |-> FALSE]

InitRecall ==
    /\ LedgerInit(Undef)
    /\ RerankIdle
    /\ LayersIdle
    /\ board = << >>
    /\ entities = {}
    /\ registered = << >>
    /\ NoStores
    /\ returned = NotRecalled
    /\ \E plugin \in {"memory-epiproc", "memory-goal"} :
          \E raw \in Hits(plugin), cfg0 \in RecallCfgs :
             /\ Len(raw) <= 3 * cfg0.recallLimit
             /\ input = [plugin |-> plugin, raw |-> raw, cfg |-> cfg0,
                         today |-> MaxAgeDays]

\* The recall of before_agent_start past the search: the entries, and a
\* block injected when there is one.
Recall ==
    /\ ~returned.ended
    /\ LET entries == recalled(input.plugin, input.raw, input.cfg, input.today)
       IN returned' = [entries |-> entries, injected |-> entries # << >>,
                       ended |-> TRUE]
    /\ UNCHANGED <<ledgerVars, rerankVars, layerVars, input, board, entities,
                   registered, storeVars>>

SpecRecall == InitRecall /\ [][Recall]_vars

\* ------------------------------ parseGoals and extractEntitiesFromText
\* A text is its lines after stripInjected and trim.  A line is blank, a tag
\* line (it matches the function's prefixRegex), a status, priority or owner
\* line, a line with `hits` matches of the function's pattern regex, or any
\* other line.  A draft keeps, beside its fields, the phase it came from and
\* the number of its detail lines.

Line(kind, value, hits) == [kind |-> kind, value |-> value, hits |-> hits]

ExtractLines ==
    { Line("blank", "", 0),
      Line("tag", "ship v2", 0), Line("tag", "all done", 0),
      Line("status", "done", 0), Line("status", "wip", 0),
      Line("priority", "high", 0), Line("owner", "ana", 0),
      Line("other", "note", 0),
      Line("other", "we need to ship v3", 1),
      Line("other", "client acme, vendor bolt, app core", 3) }

normalizeStatus(text) ==
    CASE text \in {"done", "all done"} -> "done"
      [] text = "cancelled" -> "cancelled"
      [] OTHER -> "active"

normalizePriority(text) == IF text = "high" THEN "high" ELSE ""

\* current = { goal, status, priority, owner, details } of parseGoals,
\* { type, name, details } of extractEntitiesFromText.
Draft(fn, from, text) ==
    [from |-> from, text |-> text,
     status |-> IF fn = "parseGoals" THEN normalizeStatus(text) ELSE "",
     priority |-> IF fn = "parseGoals" THEN normalizePriority(text) ELSE "",
     owner |-> "", details |-> 0]

\* The line changes nothing of the open draft.
Refine_Ignore(fn, current, line) == current

\* A line that is neither blank nor a tag line, with a draft open: in
\* parseGoals a status, priority or owner line sets the field, any other
\* line is pushed to the details; in extractEntitiesFromText every line is.
Refine(fn, current, line) ==
    IF fn = "parseGoals" /\ line.kind = "status"
    THEN [current EXCEPT !.status = normalizeStatus(line.value)]
    ELSE IF fn = "parseGoals" /\ line.kind = "priority"
    THEN [current EXCEPT !.priority = normalizePriority(line.value)]
    ELSE IF fn = "parseGoals" /\ line.kind = "owner"
    THEN [current EXCEPT !.owner = line.value]
    ELSE [current EXCEPT !.details = @ + 1]

\* The loop over the lines; current is << >> (null) or the one open draft.
RECURSIVE PrefixLoop(_, _, _, _)
PrefixLoop(fn, rest, drafts, current) ==
    IF rest = << >> THEN drafts \o current
    ELSE LET line == Head(rest)
         IN IF line.kind = "blank"
            THEN PrefixLoop(fn, Tail(rest), drafts \o current, << >>)
            ELSE IF line.kind = "tag"
            THEN PrefixLoop(fn, Tail(rest), drafts \o current,
                            << Draft(fn, "prefix", line.value) >>)
            ELSE IF current # << >>
            THEN PrefixLoop(fn, Tail(rest), drafts,
                            << Refine(fn, current[1], line) >>)
            ELSE PrefixLoop(fn, Tail(rest), drafts, current)

RECURSIVE PatternHits(_)
PatternHits(lines) ==
    IF lines = << >> THEN 0 ELSE Head(lines).hits + PatternHits(Tail(lines))

\* Every match gives a draft.
PatternPhase_All(fn, hits) == hits

\* The number of drafts of the pattern phase: cleaned.match(patternRegex)
\* gives one in parseGoals, the exec loop of extractEntitiesFromText ends
\* at entities.length >= 5.
PatternPhase(fn, hits) ==
    IF hits = 0 THEN 0
    ELSE IF fn = "parseGoals" THEN 1
    ELSE IF hits > 5 THEN 5 ELSE hits

extract(fn, lines, captureMode) ==
    LET drafts == PrefixLoop(fn, lines, << >>, << >>)
    IN IF Len(drafts) > 0 \/ captureMode = "explicit" THEN drafts
       ELSE [i \in 1..PatternPhase(fn, PatternHits(lines)) |->
                [Draft(fn, "pattern", "match") EXCEPT
                    !.status = IF fn = "parseGoals" THEN "active" ELSE "",
                    !.details = IF fn = "parseGoals" THEN 0 ELSE 1]]

ExtractCalls ==
    [fn : {"parseGoals", "extractEntitiesFromText"},
     lines : UNION { [1..n -> ExtractLines] : n \in 0..MaxLines },
     captureMode : {"explicit", "explicit_or_pattern", "pattern"}]

NotReturned == << [from |-> "", text |-> "", status |-> "", priority |-> "",
                   owner |-> "", details |-> -1] >>

InitExtract ==
    /\ LedgerInit(Undef)
    /\ RerankIdle
    /\ LayersIdle
    /\ input \in ExtractCalls
    /\ returned = NotReturned
    /\ board = << >>
    /\ entities = {}
    /\ registered = << >>
    /\ NoStores

Extract ==
    /\ returned = NotReturned
    /\ returned' = extract(input.fn, input.lines, input.captureMode)
    /\ UNCHANGED <<ledgerVars, rerankVars, layerVars, input, board, entities, registered, storeVars>>

SpecExtract == InitExtract /\ [][Extract]_vars

\* ------------------------------- the deduplicated indexes (upsertItem)
\* The key as the strings are, with no lowercasing.
Key_CaseSensitive(type, text) == << type, text >>

\* `${type.toLowerCase()}::${text.toLowerCase()}`
Key(type, text) == << ToLowerCase(type), ToLowerCase(text) >>

\* items.findIndex(...): the first item with the key, 0 for -1.
findIndex(items, key) ==
    IF \E i \in DOMAIN items : Key(items[i].type, items[i].text) = key
    THEN CHOOSE i \in DOMAIN items :
            /\ Key(items[i].type, items[i].text) = key
            /\ \A j \in 1..(i - 1) : Key(items[j].type, items[j].text) # key
    ELSE 0

upsertItem(items, newItem, t) ==
    LET existingIndex == findIndex(items, Key(newItem.type, newItem.text))
    IN IF existingIndex > 0
       THEN [items EXCEPT ![existingIndex].updatedAt = t]
       ELSE Append(items, [type |-> newItem.type, text |-> newItem.text,
                           updatedAt |-> t])

RECURSIVE UpsertEach(_, _, _)
UpsertEach(items, drafts, t) ==
    IF drafts = << >> THEN items
    ELSE UpsertEach(upsertItem(items, Head(drafts), t), Tail(drafts), t)

\* index.entities[key] = { name, type, summary, updatedAt }
RECURSIVE IndexEach(_, _, _)
IndexEach(index0, drafts, t) ==
    IF drafts = << >> THEN index0
    ELSE LET d == Head(drafts)
             key == Key(d.type, d.text)
         IN IndexEach({e \in index0 : e.key # key}
                          \cup {[key |-> key, type |-> d.type, name |-> d.text,
                                  updatedAt |-> t]},
                      Tail(drafts), t)

\* The drafts one turn gives: one or two, their texts differing by case or
\* not at all.
CaptureDrafts(types) ==
    LET one == [type : types, text : {"Ship v2", "ship v2", "fix ci"}]
    IN UNION { [1..n -> one] : n \in 1..2 }

\* memory-blackboard, agent_end: a clear line empties the board, every item
\* is upserted, the board is saved.
BlackboardAgentEnd(drafts, clear) ==
    /\ nops < MaxCaptures
    /\ nops' = nops + 1
    /\ now' = now + 1
    /\ input' = [fn |-> "memory-blackboard", drafts |-> drafts, clear |-> clear]
    /\ board' = UpsertEach(IF clear THEN << >> ELSE board, drafts, now')
    /\ UNCHANGED <<file, fileOk, inflight, done, log, turn, rerankVars, layerVars,
                   returned, entities, registered, storeVars>>

\* memory-entity, agent_end: every entity is embedded, stored and put into
\* the index under its key; saveIndex comes after the loop, which a failing
\* embed or store leaves.
EntityIndexAgentEnd(drafts, stored) ==
    /\ nops < MaxCaptures
    /\ nops' = nops + 1
    /\ now' = now + 1
    /\ input' = [fn |-> "memory-entity", drafts |-> drafts, clear |-> FALSE]
    /\ entities' = IF stored THEN IndexEach(entities, drafts, now') ELSE entities
    /\ UNCHANGED <<file, fileOk, inflight, done, log, turn, rerankVars, layerVars,
                   returned, board, registered, storeVars>>

InitCapture ==
    /\ LedgerInit(Undef)
    /\ RerankIdle
    /\ LayersIdle
    /\ NoCall

NextCapture ==
    \/ \E d \in CaptureDrafts({"note", "todo"}), c \in BOOLEAN : BlackboardAgentEnd(d, c)
    \/ \E d \in CaptureDrafts({"client"}), ok \in BOOLEAN : EntityIndexAgentEnd(d, ok)

SpecCapture == InitCapture /\ [][NextCapture]_vars

\* ------------------------------------ memory-blackboard: a turn's messages
\* A line of a message: a clear command ("bb clear"), an item line
\* ("note: Ship v2"), or a line that is neither.
BoardLines ==
    {[kind |-> "clear", type |-> "", text |-> ""],
     [kind |-> "item", type |-> "note", text |-> "Ship v2"],
     [kind |-> "item", type |-> "todo", text |-> "fix ci"],
     [kind |-> "other", type |-> "", text |-> ""]}

\* The texts of the user and assistant messages of a turn, each its lines.
BoardTurns ==
    LET texts == UNION { [1..n -> BoardLines] : n \in 1..2 }
    IN UNION { [1..n -> texts] : n \in 1..2 }

\* parseBlackboardLines: every line is read; a clear line sets the flag, an
\* item line adds an item, in the order of the lines.
parseBlackboardLines(lines) ==
    [items |-> [i \in 1..Cardinality({j \in DOMAIN lines : lines[j].kind = "item"}) |->
                  LET at == CHOOSE j \in DOMAIN lines :
                              /\ lines[j].kind = "item"
                              /\ Cardinality({m \in 1..j : lines[m].kind = "item"}) = i
                  IN [type |-> lines[at].type, text |-> lines[at].text]],
     clear |-> \E j \in DOMAIN lines : lines[j].kind = "clear"]

\* The items upserted first, the board emptied after them.
CaptureText_ClearLast(items, parsed, t) ==
    IF parsed.clear THEN << >> ELSE UpsertEach(items, parsed.items, t)

\* One text of the loop: if (parsed.clear) board.items = []; then every item
\* is upserted.
CaptureText(items, parsed, t) ==
    UpsertEach(IF parsed.clear THEN << >> ELSE items, parsed.items, t)

RECURSIVE CaptureTexts(_, _, _)
CaptureTexts(items, texts, t) ==
    IF texts = << >> THEN items
    ELSE CaptureTexts(CaptureText(items, parseBlackboardLines(Head(texts)), t),
                      Tail(texts), t)

\* agent_end of memory-blackboard on the texts of a turn's messages: the
\* board is loaded, every text captured in its turn, the board saved.
BlackboardTurn(texts) ==
    /\ nops < MaxCaptures
    /\ nops' = nops + 1
    /\ now' = now + 1
    /\ input' = [fn |-> "agent_end", texts |-> texts, at |-> nops']
    /\ board' = CaptureTexts(board, texts, now')
    /\ UNCHANGED <<file, fileOk, inflight, done, log, turn, rerankVars, layerVars,
                   returned, entities, registered, storeVars>>

SpecBoard == InitCapture /\ [][\E texts \in BoardTurns : BlackboardTurn(texts)]_vars

\* ------------------------------------- memory-toolskill: toolskill.json
SkillTools == {"exec", "read"}

SkillPatterns == {"exec:cmd", "exec:git", "read"}

NoPattern == [present |-> FALSE, total |-> 0, success |-> 0, examples |-> << >>]

NoTool == [present |-> FALSE, total |-> 0, success |-> 0,
           patterns |-> [k \in SkillPatterns |-> NoPattern]]

\* The tool results of a turn: the tool's name (none: ""), the summary of
\* its call's arguments as summarizeArgs gives it, and whether it succeeded.
ToolResults ==
    ([toolName : {"exec"}, argsSummary : {"", "git status", "git push"}, ok : BOOLEAN]
        \cup [toolName : {"read"}, argsSummary : {"", "a.txt"}, ok : BOOLEAN]
        \cup [toolName : {""}, argsSummary : {""}, ok : BOOLEAN])

SkillTurns == UNION { [1..n -> ToolResults] : n \in 1..2 }

\* String(argsSummary).trim().split(/\s+/)[0]
FirstToken(argsSummary) ==
    CASE argsSummary \in {"git status", "git push"} -> "git"
      [] OTHER -> argsSummary

patternKeyFor(toolName, argsSummary) ==
    IF toolName = "" THEN "unknown"
    ELSE IF toolName \in {"exec", "bash"}
         THEN IF argsSummary = "" THEN "exec:cmd"
              ELSE "exec:" \o FirstToken(argsSummary)
    ELSE toolName

\* argsSummary ? `${toolName}: ${argsSummary}` : toolName
ExampleOf(toolName, argsSummary) ==
    IF argsSummary # "" THEN toolName \o ": " \o argsSummary ELSE toolName

\* The list as it is, duplicates kept.
Deduplicated_Keep(examples) == examples

\* Array.from(new Set(examples)): the first occurrence of each, in order.
Deduplicated(examples) ==
    LET firsts == SelectSeq([i \in DOMAIN examples |->
                               [value |-> examples[i],
                                first |-> \A j \in 1..(i - 1) : examples[j] # examples[i]]],
                            LAMBDA e : e.first)
    IN [i \in DOMAIN firsts |-> firsts[i].value]

updateStats(skills, toolName, patternKey, ok, example, maxExamples) ==
    IF toolName = "" THEN skills
    ELSE LET tool == skills[toolName]
             pattern == tool.patterns[patternKey]
             examples == IF ok /\ example # ""
                         THEN LET unique == Deduplicated(<< example >> \o pattern.examples)
                              IN SubSeq(unique, 1,
                                        IF Len(unique) < maxExamples THEN Len(unique)
                                        ELSE maxExamples)
                         ELSE pattern.examples
         IN [skills EXCEPT ![toolName] =
               [present |-> TRUE,
                total |-> tool.total + 1,
                success |-> tool.success + (IF ok THEN 1 ELSE 0),
                patterns |-> [tool.patterns EXCEPT ![patternKey] =
                    [present |-> TRUE,
                     total |-> pattern.total + 1,
                     success |-> pattern.success + (IF ok THEN 1 ELSE 0),
                     examples |-> examples]]]]

\* for (const result of toolResults) ... stats = updateStats(...)
RECURSIVE UpdateEach(_, _, _)
UpdateEach(skills, results, maxExamples) ==
    IF results = << >> THEN skills
    ELSE LET r == Head(results)
         IN UpdateEach(updateStats(skills, r.toolName,
                                   patternKeyFor(r.toolName, r.argsSummary), r.ok,
                                   ExampleOf(r.toolName, r.argsSummary), maxExamples),
                       Tail(results), maxExamples)

\* agent_end of memory-toolskill on a turn with tool results: loadStats, the
\* loop, saveStats.
SkillAgentEnd(results) ==
    /\ nops < MaxCaptures
    /\ nops' = nops + 1
    /\ input' = [fn |-> "agent_end", results |-> results, at |-> nops']
    /\ toolStats' = [toolStats EXCEPT
                       !.tools = UpdateEach(toolStats.tools, results, toolStats.maxExamples)]
    /\ UNCHANGED <<file, fileOk, now, inflight, done, log, turn, rerankVars, layerVars,
                   returned, board, entities, registered, vtable, sentiment>>

\* loadStats of a missing file: { tools: {} }; cfg.maxExamples is at least 1.
InitSkill ==
    /\ LedgerInit(Undef)
    /\ RerankIdle
    /\ LayersIdle
    /\ input = << >>
    /\ returned = << >>
    /\ board = << >>
    /\ entities = {}
    /\ registered = << >>
    /\ vtable = << >>
    /\ sentiment = << >>
    /\ \E m \in 1..2 :
          toolStats = [tools |-> [t \in SkillTools |-> NoTool], maxExamples |-> m]

SpecSkill == InitSkill /\ [][\E results \in SkillTurns : SkillAgentEnd(results)]_vars

\* ---------------------------------------- memory-sentiment: the entries
\* if (state.entries.length > 500) state.entries = state.entries.slice(-500)
EntryCap == 500

\* sentimentScore of the turn's user text: the matches, and the label of
\* (pos - neg) / total.
SentimentScores ==
    {[matches |-> 0, label |-> "neutral"],
     [matches |-> 1, label |-> "positive"],
     [matches |-> 1, label |-> "negative"],
     [matches |-> 2, label |-> "neutral"],
     [matches |-> 2, label |-> "negative"]}

\* The oldest entries kept.
Kept_Oldest(entries) ==
    IF Len(entries) > EntryCap THEN SubSeq(entries, 1, EntryCap) ELSE entries

\* entries.slice(-500) when there are more than 500.
Kept(entries) ==
    IF Len(entries) > EntryCap
    THEN SubSeq(entries, Len(entries) - EntryCap + 1, Len(entries))
    ELSE entries

\* agent_end of memory-sentiment on a turn with user text: nothing below
\* minMatch matches; otherwise loadState, push, the cut to 500, saveState.
MoodAgentEnd(scored) ==
    /\ nops < MaxCaptures
    /\ nops' = nops + 1
    /\ now' = now + 1
    /\ input' = [fn |-> "agent_end", scored |-> scored, at |-> nops']
    /\ sentiment' =
         IF scored.matches < sentiment.minMatch THEN sentiment
         ELSE [sentiment EXCEPT
                 !.entries = Kept(Append(@, [ts |-> now', label |-> scored.label]))]
    /\ UNCHANGED <<file, fileOk, inflight, done, log, turn, rerankVars, layerVars,
                   returned, board, entities, registered, vtable, toolStats>>

\* The entries of n earlier captures, one per tick up to now; minMatch is
\* at least 0.
InitMood ==
    /\ LedgerInit(Undef)
    /\ RerankIdle
    /\ LayersIdle
    /\ input = << >>
    /\ returned = << >>
    /\ board = << >>
    /\ entities = {}
    /\ registered = << >>
    /\ vtable = << >>
    /\ toolStats = << >>
    /\ \E n \in {0, EntryCap - 1, EntryCap}, m \in 0..2 :
          sentiment = [entries |-> [i \in 1..n |-> [ts |-> i - n, label |-> "neutral"]],
                       minMatch |-> m]

SpecMood == InitMood /\ [][\E scored \in SentimentScores : MoodAgentEnd(scored)]_vars

\* --------------------------------------------------- register (normalizeConfig)
\* A key the pluginConfig does not have.
Absent == "undefined"

EMBEDDING_DIMENSIONS == {"text-embedding-3-small", "text-embedding-3-large"}

\* The plugins whose configuration names an embedding model and an apiKey.
\* memory-lancedb-strict reads its configuration with memoryConfigSchema.parse.
EmbeddingLayers == {"memory-epiproc", "memory-entity", "memory-lancedb-strict"}

\* A thrown Error, by its message.
Thrown(message) == [error |-> message, enabled |-> FALSE, apiKey |-> Absent, model |-> Absent]

\* An unset variable is replaced by nothing, with no Error.
resolveEnvVars_Lenient(value, env) ==
    IF value = "${OPENAI_API_KEY}" THEN env ELSE value

\* value.replace(/\$\{([^}]+)\}/g, ...): the variable's value, or the Error
\* when process.env has none or an empty one.
resolveEnvVars(value, env) ==
    IF value = "${OPENAI_API_KEY}"
    THEN IF env = "" THEN "Error: Environment variable OPENAI_API_KEY is not set" ELSE env
    ELSE value

IsError(value) == value = "Error: Environment variable OPENAI_API_KEY is not set"

\* normalizeConfig of memory-epiproc and memory-entity: a missing model is
\* DEFAULTS.embedding.model, a missing apiKey DEFAULTS.embedding.apiKey.
normalizeConfig(raw, env) ==
    LET model == IF raw.model # Absent THEN raw.model ELSE "text-embedding-3-large"
        apiKeyRaw == IF raw.apiKey # Absent THEN raw.apiKey ELSE "local"
        apiKey == resolveEnvVars(apiKeyRaw, env)
    IN IF model \notin EMBEDDING_DIMENSIONS THEN Thrown("Unsupported embedding model")
       ELSE IF IsError(apiKey) THEN Thrown(apiKey)
       ELSE [error |-> "", enabled |-> raw.enabled,
             apiKey |-> IF apiKey = "" THEN "local" ELSE apiKey, model |-> model]

\* memoryConfigSchema.parse of memory-lancedb-strict: the apiKey is required.
memoryConfigSchema_parse(raw, env) ==
    LET model == IF raw.model # Absent THEN raw.model ELSE "text-embedding-3-small"
        apiKey == resolveEnvVars(raw.apiKey, env)
    IN IF raw.apiKey = Absent THEN Thrown("embedding.apiKey is required")
       ELSE IF model \notin EMBEDDING_DIMENSIONS THEN Thrown("Unsupported embedding model")
       ELSE IF IsError(apiKey) THEN Thrown(apiKey)
       ELSE [error |-> "", enabled |-> TRUE, apiKey |-> apiKey, model |-> model]

\* The pluginConfig of a layer: enabled, embedding.model, embedding.apiKey.
PluginConfigs(layer) ==
    [enabled : IF layer = "memory-lancedb-strict" THEN {TRUE} ELSE BOOLEAN,
     model : {Absent, "text-embedding-3-small", "gpt-4"},
     apiKey : {Absent, "sk-live", "${OPENAI_API_KEY}"}]

\* process.env.OPENAI_API_KEY: unset, or set.
Envs == {"", "sk-env"}

NotRegistered ==
    [state |-> "none", config |-> Absent, env |-> "", apiKey |-> Absent,
     handlers |-> {}, ran |-> {}]

\* register(api): normalizeConfig first; an Error leaves register there; a
\* disabled plugin returns; otherwise api.on("before_agent_start") and
\* api.on("agent_end").  Only this plugin's api is touched.
Register(layer, raw, env) ==
    /\ nops < MaxRegistrations
    /\ registered[layer].state = "none"
    /\ nops' = nops + 1
    /\ LET config == IF layer = "memory-lancedb-strict"
                     THEN memoryConfigSchema_parse(raw, env)
                     ELSE normalizeConfig(raw, env)
       IN registered' = [registered EXCEPT ![layer] =
            [state |-> IF config.error # "" THEN "failed"
                       ELSE IF ~config.enabled THEN "disabled" ELSE "registered",
             config |-> raw, env |-> env, apiKey |-> config.apiKey,
             handlers |-> IF config.error = "" /\ config.enabled
                          THEN {"before_agent_start", "agent_end"} ELSE {},
             ran |-> {}]]
    /\ UNCHANGED <<file, fileOk, now, inflight, done, log, turn, rerankVars, layerVars,
                   input, returned, board, entities, storeVars>>

\* The host delivers an event: the handlers registered for it run.
Deliver(event) ==
    /\ nops < MaxRegistrations
    /\ \E l \in EmbeddingLayers : registered[l].state # "none"
    /\ nops' = nops + 1
    /\ registered' = [l \in EmbeddingLayers |->
            IF event \in registered[l].handlers
            THEN [registered[l] EXCEPT !.ran = @ \cup {event}]
            ELSE registered[l]]
    /\ UNCHANGED <<file, fileOk, now, inflight, done, log, turn, rerankVars, layerVars,
                   input, returned, board, entities, storeVars>>

InitRegister ==
    /\ LedgerInit(Undef)
    /\ RerankIdle
    /\ LayersIdle
    /\ input = << >>
    /\ returned = << >>
    /\ board = << >>
    /\ entities = {}
    /\ registered = [l \in EmbeddingLayers |-> NotRegistered]
    /\ NoStores

NextRegister ==
    \/ \E l \in EmbeddingLayers : \E raw \in PluginConfigs(l), env \in Envs :
          Register(l, raw, env)
    \/ \E event \in {"before_agent_start", "agent_end"} : Deliver(event)

SpecRegister == InitRegister /\ [][NextRegister]_vars

\* ------------------------------------------- VectorTable (memory-epiproc)
\* The row createTable is given to fix the schema; a caller's row is its
\* number.
Placeholder == 0

Callers == 1..MaxCallers

NotCalled == [pc |-> "idle", op |-> "", during |-> "", saw |-> {}]

\* new VectorTable(...): table null, initPromise null.  exists: the database
\* has the table already.  init is where doInitialize stands, at which of
\* its awaits.
NewVectorTable(exists) ==
    [exists |-> exists, table |-> FALSE, initPromise |-> "null", init |-> "idle",
     started |-> 0, rows |-> {}, calls |-> [p \in Callers |-> NotCalled]]

VtFrame ==
    UNCHANGED <<ledgerVars, rerankVars, layerVars, input, returned, board, entities,
                registered, toolStats, sentiment>>

\* this.table.add([fullEntry]) / this.table.vectorSearch(vector): issued on
\* the table as it is, with doInitialize standing at vt.init.
Operate(vt, p, op) ==
    [vt EXCEPT !.calls[p] = [pc |-> "done", op |-> op, during |-> vt.init,
                             saw |-> IF op = "search" THEN vt.rows ELSE {}],
               !.rows = IF op = "store" THEN @ \cup {p} ELSE @]

\* store(entry) / search(vector) up to the end of its await of
\* ensureInitialized when that needs no waiting: the table is set, or the
\* promise is rejected already; otherwise the caller waits for initPromise,
\* which it creates by calling doInitialize when there is none.
TableCall(p, op) ==
    /\ vtable.calls[p].pc = "idle"
    /\ vtable' =
         IF vtable.table THEN Operate(vtable, p, op)
         ELSE IF vtable.initPromise = "rejected"
              THEN [vtable EXCEPT !.calls[p] = [NotCalled EXCEPT !.pc = "threw", !.op = op]]
         ELSE IF vtable.initPromise = "pending"
              THEN [vtable EXCEPT !.calls[p] = [NotCalled EXCEPT !.pc = "waiting", !.op = op]]
         ELSE [vtable EXCEPT !.calls[p] = [NotCalled EXCEPT !.pc = "waiting", !.op = op],
                             !.initPromise = "pending",
                             !.init = "getConnection",
                             !.started = @ + 1]
    /\ VtFrame

\* doInitialize resumed after one of its awaits.
InitResume ==
    /\ vtable.init \in {"getConnection", "tableNames", "openTable", "createTable", "delete"}
    /\ vtable' =
         CASE vtable.init = "getConnection" -> [vtable EXCEPT !.init = "tableNames"]
           [] vtable.init = "tableNames" ->
                [vtable EXCEPT !.init = IF vtable.exists THEN "openTable" ELSE "createTable"]
           [] vtable.init = "openTable" ->
                [vtable EXCEPT !.table = TRUE, !.init = "done", !.initPromise = "fulfilled"]
           [] vtable.init = "createTable" ->
                [vtable EXCEPT !.table = TRUE, !.exists = TRUE,
                               !.rows = @ \cup {Placeholder}, !.init = "delete"]
           [] vtable.init = "delete" ->
                [vtable EXCEPT !.rows = @ \ {Placeholder}, !.init = "done",
                               !.initPromise = "fulfilled"]
    /\ VtFrame

\* The awaited call of doInitialize rejects: initPromise is rejected and
\* stays.
InitReject ==
    /\ vtable.init \in {"getConnection", "tableNames", "openTable", "createTable", "delete"}
    /\ vtable' = [vtable EXCEPT !.init = "failed", !.initPromise = "rejected"]
    /\ VtFrame

\* A caller resumed after its await of initPromise.
CallResume(p) ==
    /\ vtable.calls[p].pc = "waiting"
    /\ vtable.initPromise \in {"fulfilled", "rejected"}
    /\ vtable' =
         IF vtable.initPromise = "fulfilled"
         THEN Operate(vtable, p, vtable.calls[p].op)
         ELSE [vtable EXCEPT !.calls[p].pc = "threw"]
    /\ VtFrame

InitTable ==
    /\ LedgerInit(Undef)
    /\ RerankIdle
    /\ LayersIdle
    /\ input = << >>
    /\ returned = << >>
    /\ board = << >>
    /\ entities = {}
    /\ registered = << >>
    /\ toolStats = << >>
    /\ sentiment = << >>
    /\ \E exists \in BOOLEAN : vtable = NewVectorTable(exists)

NextTable ==
    \/ \E p \in Callers, op \in {"store", "search"} : TableCall(p, op)
    \/ InitResume
    \/ InitReject
    \/ \E p \in Callers : CallResume(p)

SpecTable == InitTable /\ [][NextTable]_vars

\* ----------------------------------------------------------------- claims
\* The ledger as a reader finds it.
Stats == loadMeta.routing_stats
Entry(l) == Stats.layers[l]
Token == loadMeta.token_savings

\* C1: under any interleaving of the handlers that update the ledger file, no
\* update is lost: once every handler has completed, each layer's persisted
\* activations is the number of recordRouting calls completed for it and its
\* chars_injected the sum of their chars.
C1_NoLostUpdate ==
    inflight = << >> =>
        \A l \in Layers :
            /\ Or0(Entry(l).activations) = done[l].calls
            /\ Or0(Entry(l).chars_injected) = done[l].chars

\* A finalization: memory-meta's agent_end has run finalizeRoutingSession
\* and saved.
FinalizeStep == log'.finalized = log.finalized + 1

\* r is n / d rounded to the nearest integer, a tie going up (d > 0).
Nearest(r, n, d) == 2 * r * d - d <= 2 * n /\ 2 * n < 2 * r * d + d

Totals == <<Stats.sessions, Stats.total_session_chars,
            Stats.total_session_activations, Stats.after_routing_avg>>

\* C2 as stated: a second finalizeRoutingSession with no recordRouting since
\* the first leaves sessions, total_session_chars, total_session_activations
\* and after_routing_avg as the first left them.
C2_SecondFinalizeKeepsTotals ==
    [][(FinalizeStep /\ log.finalized >= 1 /\ log.curCalls = 0)
          => Totals' = Totals]_vars

\* C2 amended: a second finalizeRoutingSession with no recordRouting since the
\* first leaves total_session_chars and total_session_activations unchanged,
\* counts one more session and recomputes after_routing_avg over it.
C2_SecondFinalizeKeepsSums ==
    [][(FinalizeStep /\ log.finalized >= 1 /\ log.curCalls = 0)
          => /\ Stats'.total_session_chars = Stats.total_session_chars
             /\ Stats'.total_session_activations = Stats.total_session_activations
             /\ Stats'.sessions = Stats.sessions + 1
             /\ Nearest(Stats'.after_routing_avg, Stats.total_session_chars,
                        Stats.sessions + 1)
             /\ Stats'.last_session_chars = 0
             /\ Stats'.last_session_activations = 0]_vars

\* Two finalizations in a row after a session that injected something.
C2_Witness ==
    /\ log.finalized >= 2
    /\ Stats.sessions >= 2
    /\ Stats.last_session_activations = 0
    /\ Stats.total_session_chars > 0
    /\ Stats.after_routing_avg < Stats.total_session_chars

\* C3: total_session_chars is the sum of the finalized sessions' chars, and
\* total_chars_injected = total_session_chars + current_session_chars.
C3_SessionCharsInvariant ==
    /\ Or0(Stats.total_session_chars) = log.chars
    /\ Or0(Stats.current_session_chars) = log.curChars
    /\ Or0(Stats.total_chars_injected) =
           Or0(Stats.total_session_chars) + Or0(Stats.current_session_chars)

\* A finalized session of 500 chars and 3 chars recorded since.
C3_Witness ==
    /\ log.finalized >= 1
    /\ Stats.total_session_chars = 500
    /\ Stats.current_session_chars = 3
    /\ Stats.total_chars_injected = 503

\* C4: finalizeRoutingSession on sessions = s, total_session_chars = T and
\* current_session_chars = c yields s + 1, T + c, round((T + c) / (s + 1)),
\* last_session_chars = c and zeroed current-session counters; s = 2,
\* T = 1000, c = 500 gives 3, 1500, 500.
C4_Scenario ==
    LET before == [EmptyMeta EXCEPT
                     !.routing_stats = [NoStats EXCEPT
                         !.present = TRUE, !.sessions = 2,
                         !.total_session_chars = 1000,
                         !.current_session_chars = 500]]
        after == finalizeRoutingSession(before).routing_stats
    IN /\ after.sessions = 3
       /\ after.total_session_chars = 1500
       /\ after.after_routing_avg = 500

C4_Finalize ==
    [][/\ C4_Scenario
       /\ FinalizeStep =>
            LET s == Or0(Stats.sessions)
                T == Or0(Stats.total_session_chars)
                c == Or0(Stats.current_session_chars)
            IN /\ Stats'.sessions = s + 1
               /\ Stats'.total_session_chars = T + c
               /\ Nearest(Stats'.after_routing_avg, T + c, s + 1)
               /\ Stats'.last_session_chars = c
               /\ Stats'.current_session_chars = 0
               /\ Stats'.current_session_activations = 0]_vars

\* A second session of 3 chars after one of 500: the average 251.5 rounds up.
C4_Witness ==
    /\ Stats.sessions = 2
    /\ Stats.total_session_chars = 503
    /\ Stats.after_routing_avg = 252
    /\ Stats.last_session_chars = 3
    /\ Stats.current_session_chars = 0

\* C5: across any sequence of ledger operations, loads of the file included,
\* a layer's activations and its useful_up + useful_down never decrease from
\* one state to the next.
C5_CountersMonotonic ==
    [][\A l \in Layers :
          /\ Or0(Entry(l)'.activations) >= Or0(Entry(l).activations)
          /\ Or0(Entry(l)'.useful_up) + Or0(Entry(l)'.useful_down)
                >= Or0(Entry(l).useful_up) + Or0(Entry(l).useful_down)]_vars

\* C6: recordRouting(layer, chars) with a non-empty layer adds exactly 1 to
\* the layer's activations, total_activations and current_session_activations,
\* and chars (0 when chars is not finite) to the layer's chars_injected,
\* total_chars_injected and current_session_chars; the rest of the entry and
\* the other layers' entries stay as they are.
C6_RecordRouting ==
    [][\A l \in Layers, c \in CharArgs :
          RecordRouting(l, c) =>
            LET add == IF c = NotFinite THEN 0 ELSE c
            IN /\ Entry(l)'.activations = Or0(Entry(l).activations) + 1
               /\ Entry(l)'.chars_injected = Or0(Entry(l).chars_injected) + add
               /\ Stats'.total_activations = Or0(Stats.total_activations) + 1
               /\ Stats'.total_chars_injected = Or0(Stats.total_chars_injected) + add
               /\ Stats'.current_session_activations =
                      Or0(Stats.current_session_activations) + 1
               /\ Stats'.current_session_chars =
                      Or0(Stats.current_session_chars) + add
               /\ \A k \in Layers \ {l} : Entry(k)' = Entry(k)]_vars

\* Two calls recordRouting("episodic", 500) and one call for "meta" with a
\* chars that is not finite.
C6_Witness ==
    /\ done["episodic"].calls = 2
    /\ Entry("episodic").activations = 2
    /\ Entry("episodic").chars_injected = 1000
    /\ done["meta"].calls = 1
    /\ Entry("meta").chars_injected = 0
    /\ Stats.total_activations = 3

\* h is 100 * n / d rounded to the nearest integer: n / d to 2 decimals.
NearestHundredth(h, n, d) == 2 * h * d - d <= 200 * n /\ 200 * n <= 2 * h * d + d

\* C7: a layer's useful_rate is defined exactly when useful_up + useful_down
\* > 0 and is then useful_up / (useful_up + useful_down) rounded to 2
\* decimals; N useful and M not useful events applied in whatever order give
\* useful_up = N, useful_down = M, hence useful_rate = N / (N + M) rounded.
C7_UsefulRate ==
    \A l \in Layers :
        LET up == Or0(Entry(l).useful_up)
            down == Or0(Entry(l).useful_down)
        IN /\ up = done[l].up
           /\ down = done[l].down
           /\ (Entry(l).useful_rate # Undef) <=> (up + down > 0)
           /\ up + down > 0 =>
                NearestHundredth(Entry(l).useful_rate, done[l].up,
                                 done[l].up + done[l].down)

\* 2 useful and 1 not useful for "meta" (0.67); "episodic" activated, without
\* feedback.
C7_Witness ==
    /\ done["meta"].up = 2
    /\ done["meta"].down = 1
    /\ Entry("meta").useful_rate = 67
    /\ Entry("episodic").present
    /\ Entry("episodic").useful_rate = Undef

\* C8: with a baseline, after every updateTokenSavings week_start is the
\* week boundary (UTC Monday 00:00) of that update, and saved_this_week holds
\* only the savings of the sessions finalized in that week; an absent
\* week_start is read as the code reads it, as the current week's start.
C8_WeeklyWindow ==
    (Token.before_routing_avg # Undef /\ log.finalized >= 1) =>
        /\ Token.week_start # Undef => Token.week_start = log.weekOf
        /\ Token.saved_this_week = log.weekSaved

C10_NoBaselineNoOp ==
    [][(FinalizeStep /\ Token.before_routing_avg = Undef) => Token' = Token]_vars

\* C10 amended: without a baseline, a finalization creates token_savings if
\* absent and copies routing_stats.after_routing_avg into it, and nothing
\* else of token_savings is created or modified.
C10_NoBaselineOnlyAverage ==
    [][(FinalizeStep /\ Token.before_routing_avg = Undef) =>
          /\ Token' = [Token EXCEPT !.present = TRUE,
                                    !.after_routing_avg = Stats'.after_routing_avg]
          /\ Token'.before_routing_avg = Undef
          /\ Token'.saved_last_session = Undef
          /\ Token'.saved_total = Undef
          /\ Token'.saved_this_week = Undef
          /\ Token'.week_start = Undef]_vars

\* Two sessions without a baseline: token_savings holds the average only.
C10_Witness ==
    /\ log.finalized = 2
    /\ Token.present
    /\ Token.before_routing_avg = Undef
    /\ Token.after_routing_avg = 250
    /\ Token.saved_total = Undef

\* The recognized markers of a message list, per layer and value, counted over
\* the messages of the given roles.
RECURSIVE MarkersIn(_)
MarkersIn(text) ==
    IF text = << >> THEN << >>
    ELSE LET t == Head(text)
             isMarker == /\ t.marker
                         /\ t.useful \in {"true", "TRUE", "1", "false", "FALSE", "0"}
         IN (IF isMarker
             THEN << [layer |-> t.layer, useful |-> t.useful \in {"true", "TRUE", "1"}] >>
             ELSE << >>) \o MarkersIn(Tail(text))

RECURSIVE TurnMarkers(_, _)
TurnMarkers(messages, roles) ==
    IF messages = << >> THEN << >>
    ELSE (IF Head(messages).role \in roles THEN MarkersIn(Head(messages).text)
          ELSE << >>) \o TurnMarkers(Tail(messages), roles)

\* The step applies each of the markers once to its layer's counters.
AppliesOnce(markers) ==
    \A l \in Layers :
        /\ Or0(Entry(l)'.useful_up) = Or0(Entry(l).useful_up) + Count(markers, l, TRUE)
        /\ Or0(Entry(l)'.useful_down) =
               Or0(Entry(l).useful_down) + Count(markers, l, FALSE)

\* C11 as stated: the agent_end run that finalizes a turn applies every
\* feedback marker of the turn's conversation text, the text of every
\* message, once to the named layer's counters (true and 1 as useful, false
\* and 0 as not useful, in either case), in the order they appear, in the
\* step that finalizes the session.
C11_AllMarkersApplied ==
    [][FinalizeStep =>
          /\ AppliesOnce(TurnMarkers(turn', {"user", "assistant"}))
          /\ CollectFeedbacks(turn') = TurnMarkers(turn', {"user", "assistant"})]_vars

\* C11 amended: the same of the markers in the text of the turn's user
\* messages; the text of the other messages is not scanned.
C11_UserMarkersApplied ==
    [][FinalizeStep =>
          /\ AppliesOnce(TurnMarkers(turn', {"user"}))
          /\ CollectFeedbacks(turn') = TurnMarkers(turn', {"user"})
          /\ log'.finalized = Stats'.sessions]_vars

\* A finalized turn whose user text carried "useful=0" then "useful=1" for
\* meta and whose assistant text carried a marker for episodic: meta has one
\* of each, episodic none.
C11_Witness ==
    /\ log.finalized = 1
    /\ Len(turn) = 3
    /\ TurnMarkers(turn, {"user"}) =
           << [layer |-> "meta", useful |-> FALSE], [layer |-> "meta", useful |-> TRUE] >>
    /\ TurnMarkers(turn, {"assistant"}) = << [layer |-> "episodic", useful |-> FALSE] >>
    /\ Entry("meta").useful_up = 1
    /\ Entry("meta").useful_down = 1
    /\ Entry("meta").useful_rate = 50
    /\ ~Entry("episodic").present

\* C19: for every descending-sorted list and every configuration with
\* maxDocuments >= 1, maxDocuments = 1 included, selectTopCluster returns at
\* most maxDocuments items.
C19_AtMostMaxDocuments ==
    selected # Pending => Len(selected) <= cfg.maxDocuments

\* maxDocuments = 1 and two items within minGap of each other, both at or
\* above minScore: the loop takes both, one is returned.
C19_Witness ==
    /\ selected # Pending
    /\ cfg.maxDocuments = 1
    /\ Len(sorted) >= 2
    /\ sorted[2].score >= cfg.minScore
    /\ sorted[1].score - sorted[2].score <= cfg.minGap
    /\ Len(ClusterLoop(sorted, << >>, cfg)) = 2
    /\ selected = << sorted[1] >>

\* C20: when no item scores at least minScore, selectTopCluster returns the
\* first min(maxDocuments, length) items of the input, unmodified and in
\* their order.
C20_Fallback ==
    (selected # Pending /\ \A i \in DOMAIN sorted : sorted[i].score < cfg.minScore)
        => /\ Len(selected) = (IF cfg.maxDocuments < Len(sorted)
                               THEN cfg.maxDocuments ELSE Len(sorted))
           /\ \A i \in DOMAIN selected : selected[i] = sorted[i]

\* Three items under minScore and maxDocuments = 2: the first two come back.
C20_Witness ==
    /\ selected # Pending
    /\ Len(sorted) = 3
    /\ \A i \in DOMAIN sorted : sorted[i].score < cfg.minScore
    /\ cfg.maxDocuments = 2
    /\ selected = << sorted[1], sorted[2] >>

\* The first item at or above minScore, 0 when there is none.
FirstQualifying ==
    IF \E i \in DOMAIN sorted : sorted[i].score >= cfg.minScore
    THEN CHOOSE i \in DOMAIN sorted :
            /\ sorted[i].score >= cfg.minScore
            /\ \A j \in 1..(i - 1) : sorted[j].score < cfg.minScore
    ELSE 0

\* C21: when an item scores at least minScore, selectTopCluster returns the
\* run of the sorted input that starts at the first such item, every item of
\* it at or above minScore and within minGap of the item before it; the run
\* ends at maxDocuments items, at the end of the input, or at the first item
\* that is under minScore or breaks the gap rule, and nothing after that item
\* is selected.
C21_GapCluster ==
    (selected # Pending /\ FirstQualifying > 0) =>
        LET first == FirstQualifying
            n == Len(selected)
            next == first + n
        IN /\ n >= 1
           /\ first + n - 1 <= Len(sorted)
           /\ \A k \in 1..n : /\ selected[k] = sorted[first + k - 1]
                               /\ selected[k].score >= cfg.minScore
           /\ \A k \in 2..n : selected[k - 1].score - selected[k].score <= cfg.minGap
           /\ \/ n = cfg.maxDocuments
              \/ next > Len(sorted)
              \/ sorted[next].score < cfg.minScore
              \/ sorted[next - 1].score - sorted[next].score > cfg.minGap

\* Three items at or above minScore, the third more than minGap under the
\* second: the first two are selected, the third is not.
C21_Witness ==
    /\ selected # Pending
    /\ Len(sorted) = 3
    /\ cfg.maxDocuments > 2
    /\ cfg.minGap > 0
    /\ sorted[3].score >= cfg.minScore
    /\ sorted[1].score - sorted[2].score <= cfg.minGap
    /\ sorted[1].score # sorted[2].score
    /\ sorted[2].score - sorted[3].score > cfg.minGap
    /\ selected = << sorted[1], sorted[2] >>

\* ------------------------------------------------ claims on computeDecayScore

\* a <= b as JavaScript compares: false when either side is NaN.
Leq(a, b) == a # NaN /\ b # NaN /\ a <= b

DecayOf(createdAt) ==
    computeDecayScore(input.plugin, input.score, createdAt,
                      input.halfLifeDays, input.today)

C23_NoDecayGuard ==
    (returned # Undef /\ input.halfLifeDays <= 0) => returned = input.score * 1000

\* A record four days old and a half-life of 0: the raw score comes back.
C23_Witness ==
    /\ returned # Undef
    /\ input.halfLifeDays = 0
    /\ input.createdAt = 0
    /\ input.today = MaxAgeDays
    /\ input.score = 50
    /\ returned = 50000

\* ------------------------------------------------ claims on the extractors

TagLines == {i \in DOMAIN input.lines : input.lines[i].kind = "tag"}

\* The lines after the tag line p up to the blank or tag line that closes
\* its draft.
DraftLines(p) ==
    {i \in DOMAIN input.lines :
        /\ i > p
        /\ \A j \in (p + 1)..i : input.lines[j].kind \notin {"blank", "tag"}}

\* The k-th tag line.
TagLine(k) ==
    CHOOSE p \in TagLines : Cardinality({q \in TagLines : q <= p}) = k

\* The status of the draft opened at p: its last status line's, its own
\* text's when it has none.
StatusAt(p) ==
    LET given == {i \in DraftLines(p) : input.lines[i].kind = "status"}
    IN IF given = {} THEN normalizeStatus(input.lines[p].value)
       ELSE normalizeStatus(
              input.lines[CHOOSE i \in given : \A j \in given : j <= i].value)

\* The drafts are the tag lines, in order, each with the status of its last
\* status line.
DraftsAreTagLines(drafts) ==
    /\ Len(drafts) = Cardinality(TagLines)
    /\ \A k \in DOMAIN drafts :
          /\ drafts[k].text = input.lines[TagLine(k)].value
          /\ drafts[k].status = StatusAt(TagLine(k))

\* C24 (as stated): in parseGoals, for every sequence of lines, there are as
\* many drafts as tag lines, each draft with the goal of its tag line and the
\* status of the last status line before a blank line or a new tag line
\* closed it.
C24_DraftPerTagLine ==
    (returned # NotReturned /\ input.fn = "parseGoals")
        => DraftsAreTagLines(returned)

\* C24 (amended): in parseGoals, when the text has a tag line or captureMode
\* is "explicit", there are as many drafts as tag lines, each with the goal of
\* its tag line and the status of its last status line; a text with no tag
\* line gives, in the other capture modes, one draft when its pattern
\* matches and none otherwise.
C24_DraftPerTagLineOrPattern ==
    (returned # NotReturned /\ input.fn = "parseGoals") =>
        IF TagLines # {} \/ input.captureMode = "explicit"
        THEN DraftsAreTagLines(returned)
        ELSE Len(returned) = (IF PatternHits(input.lines) > 0 THEN 1 ELSE 0)

\* "goal: ship v2" then "status: done": one draft, ship v2, done.
C24_Witness ==
    /\ input.fn = "parseGoals"
    /\ input.lines = << Line("tag", "ship v2", 0), Line("status", "done", 0) >>
    /\ Len(returned) = 1
    /\ returned[1].text = "ship v2"
    /\ returned[1].status = "done"

\* C25: the extractors return pattern-derived drafts only when no tag line
\* gave a draft and captureMode is not "explicit"; with "explicit" every
\* draft is prefix-derived; the pattern phase gives at most 5 drafts, at most
\* 1 in parseGoals.
C25_PatternFallback ==
    returned # NotReturned =>
        LET patterns == {k \in DOMAIN returned : returned[k].from = "pattern"}
        IN /\ patterns # {} => /\ TagLines = {}
                               /\ input.captureMode # "explicit"
                               /\ patterns = DOMAIN returned
           /\ Cardinality(patterns) <= (IF input.fn = "parseGoals" THEN 1 ELSE 5)

\* Two lines of three matches each and no tag line: extractEntitiesFromText
\* returns five pattern-derived drafts.
C25_Witness ==
    /\ input.fn = "extractEntitiesFromText"
    /\ input.captureMode = "pattern"
    /\ PatternHits(input.lines) = 6
    /\ Len(returned) = 5
    /\ \A k \in DOMAIN returned : returned[k].from = "pattern"

\* ------------------------------------------- claims on the deduplicated indexes

\* lowercase(type) + "::" + lowercase(text), whatever the code computes.
DedupKey(type, text) == << ToLowerCase(type), ToLowerCase(text) >>

OnePerKey ==
    /\ \A i, j \in DOMAIN board :
          DedupKey(board[i].type, board[i].text) = DedupKey(board[j].type, board[j].text)
              => i = j
    /\ \A e, f \in entities :
          DedupKey(e.type, e.name) = DedupKey(f.type, f.name) => e = f

\* The keys of the drafts of a capture.
DraftKeys(drafts) ==
    {DedupKey(drafts[k].type, drafts[k].text) : k \in DOMAIN drafts}

\* A capture into the board with no clear line: the items there stay, in
\* their places, with their type and text, and their updatedAt unless a
\* draft has their key; the board grows by the keys it did not have.
BoardUpsert ==
    (input'.fn = "memory-blackboard" /\ ~input'.clear /\ nops' = nops + 1) =>
        /\ \A i \in DOMAIN board :
              /\ i \in DOMAIN board'
              /\ board'[i].type = board[i].type
              /\ board'[i].text = board[i].text
              /\ DedupKey(board[i].type, board[i].text) \notin DraftKeys(input'.drafts)
                    => board'[i] = board[i]
        /\ Len(board') = Len(board) + Cardinality(
              DraftKeys(input'.drafts)
                  \ {DedupKey(board[i].type, board[i].text) : i \in DOMAIN board})

\* A capture into the entity index: one entry more for every key it did not
\* have, none for a key it had.
IndexUpsert ==
    (input'.fn = "memory-entity" /\ nops' = nops + 1 /\ entities' # entities) =>
        {DedupKey(e.type, e.name) : e \in entities'} =
            {DedupKey(e.type, e.name) : e \in entities} \cup DraftKeys(input'.drafts)

\* C26: the board and the entity index hold at most one entry per key
\* lowercase(type) + "::" + lowercase(text or name) after any sequence of
\* captures; a draft whose key is there adds no entry, and in the board
\* changes nothing of the item but its updatedAt.
C26_OneEntryPerKey ==
    /\ []OnePerKey
    /\ [][BoardUpsert /\ IndexUpsert]_vars

\* "Ship v2" captured, then "ship v2": one item, its text as first written,
\* its updatedAt the second capture's.
C26_Witness ==
    /\ input # << >>
    /\ input.fn = "memory-blackboard"
    /\ input.drafts = << [type |-> "note", text |-> "ship v2"] >>
    /\ ~input.clear
    /\ board = << [type |-> "note", text |-> "Ship v2", updatedAt |-> 2] >>

\* --------------------------------------------------------- claims on register

Attempted(l) == registered[l].state # "none"

UnsupportedModel(l) == Attempted(l) /\ registered[l].config.model = "gpt-4"

MissingApiKey(l) == Attempted(l) /\ registered[l].config.apiKey = Absent

UnsetVariable(l) ==
    Attempted(l) /\ registered[l].config.apiKey = "${OPENAI_API_KEY}" /\ registered[l].env = ""

\* register failed before any api.on, and no handler of the layer ever ran.
NeverActive(l) ==
    /\ registered[l].state = "failed"
    /\ registered[l].handlers = {}
    /\ registered[l].ran = {}

\* A step changes the registration of one layer at most, or runs handlers.
OthersUnaffected ==
    \A l \in EmbeddingLayers :
        (registered'[l].state # registered[l].state) =>
            \A m \in EmbeddingLayers \ {l} : registered'[m] = registered[m]

ConfigErrorFails ==
    \A l \in EmbeddingLayers :
        /\ (Attempted(l) /\ (UnsupportedModel(l) \/ UnsetVariable(l))) => NeverActive(l)
        /\ (Attempted(l) /\ MissingApiKey(l) /\ l = "memory-lancedb-strict")
              => NeverActive(l)
        /\ (Attempted(l) /\ MissingApiKey(l) /\ ~UnsupportedModel(l)
                /\ l # "memory-lancedb-strict")
              => /\ registered[l].state # "failed"
                 /\ registered[l].apiKey = "local"
                 /\ registered[l].config.enabled
                       => registered[l].handlers = {"before_agent_start", "agent_end"}

LedgerCall == nops' = nops + 1 /\ input'.layer # ""

\* C28: recordRouting and recordRoutingFeedback never raise; a ledger file
\* that cannot be read or parsed counts as the empty document, the update
\* being applied on top of it; a failing write is swallowed and leaves the
\* file as it was.
C28_NeverRaisesFileKept ==
    [][LedgerCall =>
          /\ returned' # "raised"
          /\ (~fileOk /\ input'.write = "ok") =>
                file' \in {recordRouting(EmptyMeta, input'.layer, c) : c \in CharArgs}
                    \cup {recordRoutingFeedback(EmptyMeta, input'.layer, u) : u \in BOOLEAN}
          /\ input'.write # "ok" => (file' = file /\ fileOk' = fileOk)]_vars

\* The same without the last part: the calls return, and an unreadable file
\* counts as the empty document.
NeverRaisesOnEmpty ==
    [][LedgerCall =>
          /\ returned' # "raised"
          /\ (~fileOk /\ input'.write = "ok") =>
                file' \in {recordRouting(EmptyMeta, input'.layer, c) : c \in CharArgs}
                    \cup {recordRoutingFeedback(EmptyMeta, input'.layer, u) : u \in BOOLEAN}
          /\ input'.write = "EACCES" => (file' = file /\ fileOk' = fileOk)]_vars

\* C29: every update of the ledger file is atomic: at every instant, a
\* crash in the middle of an update included, the file on disk is a complete
\* document, the previous one or the new one, never a partial one.
C29_FileNeverPartial == fileOk = TRUE

\* C30: every agent_end event delivered to memory-meta, whatever its message
\* list, runs finalizeRoutingSession exactly once: the chars and activations
\* recorded during the turn are folded into that turn's session and none is
\* left for a later one.
C30_FinalizedOncePerTurn ==
    [][input' # input =>
          /\ log'.finalized = log.finalized + 1
          /\ log'.curChars = 0
          /\ log'.curCalls = 0
          /\ Or0(file'.routing_stats.current_session_chars) = 0
          /\ Or0(file'.routing_stats.current_session_activations) = 0]_vars

\* The same for the events with a message.
FinalizedOncePerMessageTurn ==
    [][(input' # input /\ input'.event.messages # << >>) =>
          /\ log'.finalized = log.finalized + 1
          /\ log'.curChars = 0
          /\ log'.curCalls = 0
          /\ Or0(file'.routing_stats.current_session_chars) = 0
          /\ Or0(file'.routing_stats.current_session_activations) = 0]_vars

\* The counters of routing_stats outside the layers' entries.
GlobalCounters ==
    <<Stats.total_activations, Stats.total_chars_injected,
      Stats.current_session_chars, Stats.current_session_activations,
      Stats.sessions, Stats.total_session_chars, Stats.total_session_activations,
      Stats.last_session_chars, Stats.last_session_activations>>

\* C31: feedback for a layer that has no ledger entry creates the entry with
\* activations = 0 and chars_injected = 0 and counts that one feedback event;
\* the other layers' entries and the global activation, char and session
\* counters stay as they are.
C31_LazyEntry ==
    [][\A l \in Layers, u \in BOOLEAN :
          (RecordRoutingFeedback(l, u) /\ ~Entry(l).present) =>
            /\ Entry(l)'.present
            /\ Entry(l)'.activations = 0
            /\ Entry(l)'.chars_injected = 0
            /\ Entry(l)'.useful_up = IF u THEN 1 ELSE 0
            /\ Entry(l)'.useful_down = IF u THEN 0 ELSE 1
            /\ Entry(l)'.useful_rate = IF u THEN 100 ELSE 0
            /\ \A k \in LedgerLayers \ {l} : Entry(k)' = Entry(k)
            /\ GlobalCounters' = GlobalCounters]_vars

\* "meta" got one useful feedback and was never activated; "episodic" was
\* activated once before.
C31_Witness ==
    /\ done["meta"].calls = 0
    /\ done["meta"].up = 1
    /\ Entry("meta").activations = 0
    /\ Entry("meta").useful_up = 1
    /\ Entry("episodic").activations = 1
    /\ Stats.total_activations = 1

RECURSIVE SumOver(_, _)
SumOver(layers, field) ==
    IF layers = {} THEN 0
    ELSE LET l == CHOOSE x \in layers : TRUE
         IN Or0(Entry(l)[field]) + SumOver(layers \ {l}, field)

\* C33: after any sequence of recordRouting, recordRoutingFeedback,
\* applyFeedback and finalizeRoutingSession from an empty ledger,
\* total_activations is the sum of the layers' activations and
\* total_chars_injected the sum of the layers' chars_injected.
C33_TotalsAreSums ==
    /\ Or0(Stats.total_activations) = SumOver(LedgerLayers, "activations")
    /\ Or0(Stats.total_chars_injected) = SumOver(LedgerLayers, "chars_injected")

\* Two layers activated, one of them with feedback before its activation,
\* and a session finalized.
C33_Witness ==
    /\ log.finalized >= 1
    /\ done["meta"].up + done["meta"].down >= 1
    /\ Entry("meta").activations = 1
    /\ Entry("episodic").activations = 1
    /\ Stats.total_activations = 2
    /\ Stats.total_chars_injected = 503

\* ------------------------------------------------ claims on the VectorTable

DoInitializeOnce == vtable.started <= 1

\* C32: with store and search calls running concurrently on one VectorTable,
\* doInitialize is started at most once, and no store or search operates on
\* the table before the initialization has completed, the deletion of the
\* "__schema__" placeholder row included.
C32_InitOnceThenOperate ==
    /\ DoInitializeOnce
    /\ \A p \in Callers :
          vtable.calls[p].pc = "done" => vtable.calls[p].during = "done"

\* ------------------------------------------------------ claims on the recall

\* The adjusted score of the row at place i of the search result.
AdjustedOf(i) ==
    computeDecayScore(input.plugin, input.raw[i].score, input.raw[i].createdAt,
                      input.cfg.halfLifeDays, input.today)

Reaches(i) == AdjustedOf(i) >= input.cfg.minScore * 1000

NonIncreasing(entries) ==
    \A i, j \in DOMAIN entries : i < j => entries[i].adjusted >= entries[j].adjusted

\* C34: recallEntries returns at most recallLimit entries, each with a
\* decay-adjusted score >= minScore, in the order of non-increasing adjusted
\* score, all drawn from the rows of the vector search; when no row reaches
\* minScore it returns the empty list and the layer injects nothing.
C34_RecallEntries ==
    (returned.ended /\ input.plugin = "memory-epiproc") =>
        LET entries == returned.entries
        IN /\ Len(entries) <= input.cfg.recallLimit
           /\ \A i \in DOMAIN entries :
                 /\ entries[i].id \in DOMAIN input.raw
                 /\ entries[i].adjusted = AdjustedOf(entries[i].id)
                 /\ Reaches(entries[i].id)
           /\ \A i, j \in DOMAIN entries : i # j => entries[i].id # entries[j].id
           /\ NonIncreasing(entries)
           /\ (\A i \in DOMAIN input.raw : ~Reaches(i)) =>
                 (entries = << >> /\ ~returned.injected)

\* Three rows, one below minScore after its decay, recallLimit 1: the best
\* one is returned.
C34_Witness ==
    /\ returned.ended
    /\ input.plugin = "memory-epiproc"
    /\ Len(input.raw) = 3
    /\ input.cfg.recallLimit = 1
    /\ \E i \in DOMAIN input.raw : ~Reaches(i)
    /\ \E i \in DOMAIN input.raw : Reaches(i) /\ input.raw[i].createdAt < input.today
    /\ Len(returned.entries) = 1
    /\ returned.injected

ActiveRow(i) == input.raw[i].status = "active"

\* C35: in memory-goal's recall, among the rows whose adjusted score is
\* >= minScore every goal with status "active" comes before every goal that
\* is not, whatever their scores; within each group the order is of
\* non-increasing adjusted score; at most recallLimit goals are injected.
C35_ActiveFirst ==
    (returned.ended /\ input.plugin = "memory-goal") =>
        LET entries == returned.entries
            reaching == {i \in DOMAIN input.raw : Reaches(i)}
            ids == {entries[k].id : k \in DOMAIN entries}
        IN /\ Len(entries) <= input.cfg.recallLimit
           /\ ids \subseteq reaching
           /\ Cardinality(ids) = Len(entries)
           /\ \A i, j \in DOMAIN entries :
                 i < j =>
                   /\ ActiveRow(entries[j].id) => ActiveRow(entries[i].id)
                   /\ ActiveRow(entries[i].id) = ActiveRow(entries[j].id)
                         => entries[i].adjusted >= entries[j].adjusted
           \* a goal left out is not ranked before one taken
           /\ \A i \in reaching \ ids :
                 /\ Len(entries) = input.cfg.recallLimit
                 /\ \A k \in DOMAIN entries :
                       /\ ActiveRow(i) => ActiveRow(entries[k].id)
                       /\ ActiveRow(i) = ActiveRow(entries[k].id)
                             => entries[k].adjusted >= AdjustedOf(i)

\* An active goal of a lower score ranked before a done goal of a higher
\* one.
C35_Witness ==
    /\ returned.ended
    /\ input.plugin = "memory-goal"
    /\ Len(returned.entries) = 2
    /\ ActiveRow(returned.entries[1].id)
    /\ ~ActiveRow(returned.entries[2].id)
    /\ returned.entries[1].adjusted < returned.entries[2].adjusted

\* ----------------------------------------------- claims on the board's clear

HasClear(text) == \E j \in DOMAIN text : text[j].kind = "clear"

\* The keys of the item lines of the texts at the places in `places`.
ItemKeys(texts, places) ==
    UNION { {DedupKey(texts[m][j].type, texts[m][j].text) :
                j \in {i \in DOMAIN texts[m] : texts[m][i].kind = "item"}} :
            m \in places }

BoardKeys(items) == {DedupKey(items[i].type, items[i].text) : i \in DOMAIN items}

\* A capture of a turn's texts: with no clear command the board keeps its
\* items and gains the turn's; with one, the board holds exactly the items
\* of the last text with a clear command, wherever in the text the command
\* stands, and of the texts after it.
ClearThenInsert ==
    input' # input =>
        LET texts == input'.texts
            clears == {m \in DOMAIN texts : HasClear(texts[m])}
            last == CHOOSE m \in clears : \A k \in clears : k <= m
        IN IF clears = {}
           THEN BoardKeys(board') = BoardKeys(board) \cup ItemKeys(texts, DOMAIN texts)
           ELSE BoardKeys(board') = ItemKeys(texts, last..Len(texts))

\* C36: in memory-blackboard's capture a clear command anywhere in a message
\* empties the whole board before any item of that message is inserted,
\* whatever the order of the lines in the message; items inserted from
\* earlier messages of the turn are discarded by a later message's clear,
\* and the items of the clearing message and of later messages are kept.
C36_ClearBeforeItems == [][ClearThenInsert]_vars

\* A board holding "fix ci"; a turn whose first message gives "Ship v2" and
\* whose second gives "fix ci" and, after it, the clear command: the board
\* holds "fix ci" alone, written in this turn.
C36_Witness ==
    /\ input # << >>
    /\ input.at = 2
    /\ Len(input.texts) = 2
    /\ input.texts[1] = << [kind |-> "item", type |-> "note", text |-> "Ship v2"] >>
    /\ input.texts[2] = << [kind |-> "item", type |-> "todo", text |-> "fix ci"],
                           [kind |-> "clear", type |-> "", text |-> ""] >>
    /\ board = << [type |-> "todo", text |-> "fix ci", updatedAt |-> 2] >>

\* ------------------------------------------------- claims on toolskill.json

RECURSIVE SumPatterns(_, _, _)
SumPatterns(tool, keys, field) ==
    IF keys = {} THEN 0
    ELSE LET k == CHOOSE x \in keys : TRUE
         IN tool.patterns[k][field] + SumPatterns(tool, keys \ {k}, field)

\* The results of the last capture that succeeded on pattern k of tool t.
Succeeded(t, k) ==
    {i \in DOMAIN input.results :
        /\ input.results[i].ok
        /\ input.results[i].toolName = t
        /\ (IF input.results[i].argsSummary = "" THEN (IF t = "exec" THEN "exec:cmd" ELSE t)
            ELSE IF t = "exec" THEN "exec:git" ELSE t) = k}

\* C37: after any sequence of memory-toolskill captures from empty stats,
\* every tool and every pattern has 0 <= success <= total, a tool's total and
\* success are the sums of its patterns', and a pattern's examples are at
\* most maxExamples, without duplicates, the most recent successful example
\* first.
C37_ToolStats ==
    \A t \in SkillTools :
        LET tool == toolStats.tools[t]
        IN /\ 0 <= tool.success /\ tool.success <= tool.total
           /\ tool.total = SumPatterns(tool, SkillPatterns, "total")
           /\ tool.success = SumPatterns(tool, SkillPatterns, "success")
           /\ \A k \in SkillPatterns :
                 LET pattern == tool.patterns[k]
                 IN /\ 0 <= pattern.success /\ pattern.success <= pattern.total
                    /\ Len(pattern.examples) <= toolStats.maxExamples
                    /\ \A i, j \in DOMAIN pattern.examples :
                          pattern.examples[i] = pattern.examples[j] => i = j
                    /\ (input # << >> /\ Succeeded(t, k) # {}) =>
                          LET last == CHOOSE i \in Succeeded(t, k) :
                                         \A j \in Succeeded(t, k) : j <= i
                              r == input.results[last]
                          IN /\ pattern.examples # << >>
                             /\ pattern.examples[1] =
                                   (IF r.argsSummary = "" THEN t
                                    ELSE t \o ": " \o r.argsSummary)

\* "git status" succeeded in one turn, then "git push" and again "git
\* status" in the next, with a failed exec: two examples, no duplicate, the
\* last one first.
C37_Witness ==
    /\ toolStats.maxExamples = 2
    /\ toolStats.tools["exec"].patterns["exec:git"].examples =
           << "exec: git status", "exec: git push" >>
    /\ toolStats.tools["exec"].patterns["exec:git"].total = 3
    /\ toolStats.tools["exec"].total = 4
    /\ toolStats.tools["exec"].success = 3

\* ------------------------------------------- claims on the sentiment entries

CappedAndOrdered ==
    /\ Len(sentiment.entries) <= 500
    /\ \A i \in 1..(Len(sentiment.entries) - 1) :
          sentiment.entries[i].ts <= sentiment.entries[i + 1].ts

\* A turn below minMatch leaves the entries as they are; a capture puts its
\* entry last and keeps the entries before it, but the oldest when there
\* were 500.
NewestKept ==
    input' # input =>
        LET old == sentiment.entries
            new == sentiment'.entries
            dropped == IF Len(old) >= 500 THEN Len(old) - 499 ELSE 0
        IN IF input'.scored.matches < sentiment.minMatch
           THEN sentiment' = sentiment
           ELSE /\ Len(new) = Len(old) + 1 - dropped
                /\ new[Len(new)] = [ts |-> now', label |-> input'.scored.label]
                /\ \A i \in 1..(Len(new) - 1) : new[i] = old[i + dropped]

\* C38: after any sequence of memory-sentiment captures the entries are at
\* most 500, in the order of their capture, and hold the most recently
\* captured ones, the oldest being dropped first; a turn whose user text has
\* fewer than minMatch matches leaves the state as it was.
C38_LastFiveHundred ==
    /\ []CappedAndOrdered
    /\ [][NewestKept]_vars

\* Two captures on 500 entries: 500 entries still, the two oldest gone, the
\* two new ones last.
C38_Witness ==
    /\ Len(sentiment.entries) = 500
    /\ sentiment.entries[1].ts = -497
    /\ sentiment.entries[499].ts = 1
    /\ sentiment.entries[500] = [ts |-> 2, label |-> "negative"]

\* ------------------------------------------------ claims on the memory layers

AllLayers == LedgerLayers \cup {"rerank"}

CallsOf(l) == {i \in DOMAIN out.calls : out.calls[i].layer = l}

BlocksOf(l) == {i \in DOMAIN out.blocks : out.blocks[i].layer = l}

\* The embedding or the vector search of layer l's recall was answered by a
\* failure.
Failed(l) ==
    \E i \in CallsOf(l) :
        out.calls[i].call \in {"embed", "search"} /\ out.calls[i].answer = "fail"

\* The other sub-layer of memory-epiproc issued its calls when it was allowed.
OthersRun(l) ==
    /\ l = "episodic" /\ Allowed("procedural", out.prompt) => CallsOf("procedural") # {}
    /\ l = "procedural" /\ Allowed("episodic", out.prompt) => CallsOf("episodic") # {}

\* The gate of section 4.3: the minimum length, then alwaysRecall or the
\* layer's keyword match.
Passes(l, prompt) ==
    /\ prompt.length >= MinLength(l)
    /\ l \in GatedLayers
    /\ Allowed(l, prompt)

\* C12: no handler, before_agent_start or agent_end, of any layer ends by
\* throwing to the host when an embedding, vector-search or vector-store call
\* fails.
C12_NeverThrows == out.status # "threw"

\* C13 (as stated): when the embedding or the vector search of a layer's
\* recall fails, the layer injects no block and records no activation, and
\* the other sub-layer of memory-epiproc still runs its recall.
C13_FailedLayerAbsent ==
    out.hook = "before_agent_start" =>
        \A l \in LedgerLayers :
            Failed(l) => /\ BlocksOf(l) = {}
                         /\ Times(out.routed, l) = 0
                         /\ OthersRun(l)

\* C13 (amended): when the embedding or the vector search of a layer's
\* recall fails, nothing of that recall is injected; the layer injects no
\* block and records no activation, except memory-entity, which injects one
\* block of the entities.json entries named in the prompt, with one
\* activation, exactly when there are such entries; the other sub-layer of
\* memory-epiproc still runs its recall.
C13_FailedRecallAbsent ==
    out.hook = "before_agent_start" =>
        \A l \in LedgerLayers :
            Failed(l) =>
                /\ \A i \in BlocksOf(l) : "vector" \notin out.blocks[i].from
                /\ l # "entity" => BlocksOf(l) = {} /\ Times(out.routed, l) = 0
                /\ l = "entity" =>
                      /\ Cardinality(BlocksOf(l)) = Times(out.routed, l)
                      /\ Times(out.routed, l) =
                            IF \E e \in index : e.name \in out.prompt.names THEN 1 ELSE 0
                /\ OthersRun(l)

\* memory-entity's vector recall failed and the block of the index entries
\* was injected.
C13_Witness ==
    /\ out.plugin = "memory-entity"
    /\ out.status = "returned"
    /\ Failed("entity")
    /\ BlocksOf("entity") # {}
    /\ out.routed = << "entity" >>

\* C14: no handler stays at an external call that never responds; every
\* external call is bounded by a timeout that ends the layer's pipeline.
C14_NeverAwaiting == out.status # "awaiting"

\* C15: a before_agent_start handler that returned made as many recordRouting
\* calls as there are blocks in what it returned, per layer, with at most one
\* block per layer.
C15_OneRecordPerBlock ==
    out.hook = "before_agent_start" /\ out.status = "returned" =>
        /\ Len(out.routed) = Len(out.blocks)
        /\ \A l \in AllLayers :
              /\ Cardinality(BlocksOf(l)) <= 1
              /\ l \in LedgerLayers => Times(out.routed, l) = Cardinality(BlocksOf(l))

\* C16: a before_agent_start handler returns no block of a layer, and records
\* no activation of it, for a prompt that the layer's gate rejects (shorter
\* than the minimum length, or alwaysRecall off and no keyword match).
C16_RejectedIsSkipped ==
    out.hook = "before_agent_start" =>
        \A l \in AllLayers :
            ~Passes(l, out.prompt) =>
                /\ BlocksOf(l) = {}
                /\ \A i \in DOMAIN out.routed : out.routed[i] # l

\* C17: a before_agent_start handler issues no embedding request, vector
\* search or LTM search of a layer for a prompt that has not passed the
\* layer's gate.
C17_NoUngatedCall ==
    out.hook = "before_agent_start" =>
        \A i \in DOMAIN out.calls :
            out.calls[i].call \in {"embed", "search", "ltm_search"}
                => Passes(out.calls[i].layer, out.prompt)

\* C18: with redaction enabled, no text handed to the embedding provider and
\* no field stored by an agent_end handler (row text, row meta, index file,
\* state file) carries an unmasked secret-shaped token.
C18_NothingUnredacted ==
    conf.redaction /\ out.hook = "agent_end" =>
        /\ \A i \in DOMAIN out.calls :
              out.calls[i].call = "embed" => ~out.calls[i].leak
        /\ \A f \in out.saved : ~f.leak

====
